---------------------------- MODULE Spec2Model ----------------------------
(***************************************************************************)
(* Model of the vlen variable-length numeric codec (src/vlen/encode.rs,    *)
(* src/vlen/decode.rs).                                                    *)
(*                                                                         *)
(* Integers wider than the model checker's native integers are kept as     *)
(* little-endian byte arrays of the exact width of the Rust type: a value  *)
(* of N bytes is a function 0..N-1 -> 0..255, index 0 the least            *)
(* significant byte.  Shifts, masks, casts and comparisons are computed on *)
(* that representation with the wrap-around of the fixed width.  Buffers   *)
(* are functions 0..len-1 -> 0..255, indexed as in the source.             *)
(***************************************************************************)
EXTENDS Integers, FiniteSets, Sequences, TLC

(***************************************************************************)
(* Bounds of the exploration.                                              *)
(***************************************************************************)
\* number of fill bytes used for value bit patterns
ValueFills == 3
\* number of fill bytes used for prior buffer contents and for padding
BufFills == 2
\* width in bits of the windowed value patterns
Window == 9
\* how many bytes a slice may have beyond the maximum tier of its type
SliceExtra == 2
\* the longest sequence of values given to the scalar bulk functions
MaxValues == 2
\* how many bytes before the encoded length a caller may cut the buffer
CutBack == 1
\* the longest sequence of values given to the SIMD bulk functions
MaxSimdValues == 8
\* the longest buffer of received bytes given to a decode loop
MaxRawLen == 30

Byte == 0..255

FillByte(i) ==
  CASE i = 0 -> 0
    [] i = 1 -> 255
    [] i = 2 -> 165
    [] i = 3 -> 90
    [] OTHER -> (i * 37) % 256

(***************************************************************************)
(* Fixed-width arithmetic on little-endian byte arrays.                    *)
(***************************************************************************)
Pow2(k) == 2 ^ k

Bit(x, k) == (x \div Pow2(k)) % 2

And8(a, b) ==
  LET f(k) == Bit(a, k) * Bit(b, k) * Pow2(k)
  IN  f(0) + f(1) + f(2) + f(3) + f(4) + f(5) + f(6) + f(7)

Xor8(a, b) ==
  LET f(k) == ((Bit(a, k) + Bit(b, k)) % 2) * Pow2(k)
  IN  f(0) + f(1) + f(2) + f(3) + f(4) + f(5) + f(6) + f(7)

Or8(a, b) == a + b - And8(a, b)

Width(a) == Cardinality(DOMAIN a)

Zero(n) == [i \in 0..(n - 1) |-> 0]

\* uN::MAX for N = 8 * n
MaxOf(n) == [i \in 0..(n - 1) |-> 255]

\* a literal x < 2^31 as an n-byte integer
Lit(x, n) ==
  [i \in 0..(n - 1) |-> IF i > 3 THEN 0 ELSE (x \div Pow2(8 * i)) % 256]

\* `a as uM` / `a as iM` between unsigned types or to a narrower type:
\* truncation or zero extension
Cast(a, m) ==
  [i \in 0..(m - 1) |-> IF i < Width(a) THEN a[i] ELSE 0]

\* `a as u8`
AsU8(a) == a[0]

\* unsigned a < b, a <= b on equal widths
ULt(a, b) ==
  \E i \in DOMAIN a :
    /\ a[i] < b[i]
    /\ \A j \in DOMAIN a : j > i => a[j] = b[j]

ULe(a, b) == a = b \/ ULt(a, b)

BAnd(a, b) == [i \in DOMAIN a |-> And8(a[i], b[i])]

BOr(a, b) == [i \in DOMAIN a |-> Or8(a[i], b[i])]

BXor(a, b) == [i \in DOMAIN a |-> Xor8(a[i], b[i])]

\* byte i of a, or d outside the value
ByteAt(a, i, d) == IF i \in DOMAIN a THEN a[i] ELSE d

\* shift right by k bits, vacated bits filled from the byte `fill`
ShiftRight(a, k, fill) ==
  LET q == k \div 8
      r == k % 8
  IN  [i \in DOMAIN a |->
         ((ByteAt(a, i + q, fill) \div Pow2(r))
           + (ByteAt(a, i + q + 1, fill) * Pow2(8 - r))) % 256]

\* `a >> k` on an unsigned type
Shr(a, k) == ShiftRight(a, k, 0)

\* `a >> k` on a signed type (arithmetic)
Sar(a, k) ==
  ShiftRight(a, k, IF a[Width(a) - 1] >= 128 THEN 255 ELSE 0)

\* `a << k`, bits shifted out of the width are lost
Shl(a, k) ==
  LET q == k \div 8
      r == k % 8
  IN  [i \in DOMAIN a |->
         ((ByteAt(a, i - q, 0) * Pow2(r)) % 256)
           + (ByteAt(a, i - q - 1, 0) \div Pow2(8 - r))]

\* carry into byte i when adding 1 to the complement of a
RECURSIVE NegCarry(_, _)
NegCarry(a, i) ==
  IF i = 0 THEN 1
  ELSE IF NegCarry(a, i - 1) = 1 /\ a[i - 1] = 0 THEN 1 ELSE 0

\* wrapping two's complement negation `-a`
Neg(a) == [i \in DOMAIN a |-> ((255 - a[i]) + NegCarry(a, i)) % 256]

\* number of leading zero bits of a byte
Clz8(x) ==
  IF x >= 128 THEN 0 ELSE IF x >= 64 THEN 1 ELSE IF x >= 32 THEN 2
  ELSE IF x >= 16 THEN 3 ELSE IF x >= 8 THEN 4 ELSE IF x >= 4 THEN 5
  ELSE IF x >= 2 THEN 6 ELSE IF x >= 1 THEN 7 ELSE 8

\* `a.leading_zeros()`
LeadingZeros(a) ==
  LET n  == Width(a)
      nz == {i \in DOMAIN a : a[i] # 0}
  IN  IF nz = {} THEN 8 * n
      ELSE LET top == CHOOSE i \in nz : \A j \in nz : j <= i
           IN  8 * (n - 1 - top) + Clz8(a[top])

\* `a.swap_bytes()`
SwapBytes(a) == [i \in DOMAIN a |-> a[Width(a) - 1 - i]]

(***************************************************************************)
(* Buffer access.                                                          *)
(***************************************************************************)
\* the first n bytes of a buffer seen as `[u8; n]` (pointer cast)
Prefix(buf, n) == [i \in 0..(n - 1) |-> buf[i]]

\* the buffer after the callee wrote through the `[u8; n]` view of its start
Overlay(buf, sub) ==
  [i \in DOMAIN buf |-> IF i \in DOMAIN sub THEN sub[i] ELSE buf[i]]

\* store of the little-endian bytes of v at buf[1..]; the aligned and the
\* unaligned store write the same bytes
WriteAtOffset1(buf, v) ==
  [i \in DOMAIN buf |->
     IF i >= 1 /\ i <= Width(v) THEN v[i - 1] ELSE buf[i]]

\* load of an n-byte little-endian integer from buf[1..]
ReadAtOffset1(buf, n) == [i \in 0..(n - 1) |-> buf[i + 1]]

(***************************************************************************)
(* encode.rs                                                               *)
(***************************************************************************)
\* variant: the 3-byte range includes 0xE0
encoded_len_le_e0(b) ==
  IF b < 128 THEN 1
  ELSE IF b < 192 THEN 2
  ELSE IF b <= 224 THEN 3
  ELSE IF b < 240 THEN 4
  ELSE And8(b, 15) + 2

encoded_len(b) ==
  IF b < 128 THEN 1
  ELSE IF b < 192 THEN 2
  ELSE IF b < 224 THEN 3
  ELSE IF b < 240 THEN 4
  ELSE And8(b, 15) + 2

\* variant: the one-byte tier ends at 0x40
encoded_size_u16_lt_40(value) ==
  IF ULt(value, Lit(64, 2)) THEN 1
  ELSE IF ULt(value, Lit(16384, 2)) THEN 2
  ELSE 3

encoded_size_u16(value) ==
  IF ULt(value, Lit(128, 2)) THEN 1
  ELSE IF ULt(value, Lit(16384, 2)) THEN 2
  ELSE 3

\* variant: 0x200000 counted in the 3-byte tier
encoded_size_u32_le_200000(value) ==
  IF ULe(value, Cast(MaxOf(2), 4)) THEN encoded_size_u16(Cast(value, 2))
  ELSE IF ULe(value, Lit(2097152, 4)) THEN 3
  ELSE IF ULt(value, Lit(268435456, 4)) THEN 4
  ELSE 5

encoded_size_u32(value) ==
  IF ULe(value, Cast(MaxOf(2), 4)) THEN encoded_size_u16(Cast(value, 2))
  ELSE IF ULt(value, Lit(2097152, 4)) THEN 3
  ELSE IF ULt(value, Lit(268435456, 4)) THEN 4
  ELSE 5

\* variant: the 64-bit mask used for every width
LenMask_always7(n) == 7

\* LEN_MASK of encode_large_int for an n-byte type
LenMask(n) == IF n = 8 THEN 7 ELSE 15

\* the length nibble of the length-prefixed tier
LargeLen(value) ==
  Xor8((LeadingZeros(value) \div 8) % 256, LenMask(Width(value)))

encoded_size_u64(value) ==
  IF ULe(value, Cast(MaxOf(4), 8)) THEN encoded_size_u32(Cast(value, 4))
  ELSE LargeLen(value) + 2

encoded_size_u128(value) ==
  IF ULe(value, Cast(MaxOf(8), 16)) THEN encoded_size_u64(Cast(value, 8))
  ELSE LargeLen(value) + 2

\* variant: the 1-byte tier ends at 0x40
encode_u16_tier1_40(buf, value) ==
  IF ULt(value, Lit(64, 2)) THEN
    [buf |-> [buf EXCEPT ![0] = AsU8(value)], len |-> 1]
  ELSE IF ULt(value, Lit(16384, 2)) THEN
    [buf |-> [buf EXCEPT ![0] = Or8(128, AsU8(BAnd(value, Lit(63, 2)))),
                         ![1] = AsU8(Shr(value, 6))],
     len |-> 2]
  ELSE
    [buf |-> [buf EXCEPT ![0] = 222,
                         ![1] = AsU8(BAnd(value, Lit(255, 2))),
                         ![2] = AsU8(Shr(value, 8))],
     len |-> 3]

encode_u16(buf, value) ==
  IF ULt(value, Lit(128, 2)) THEN
    [buf |-> [buf EXCEPT ![0] = AsU8(value)], len |-> 1]
  ELSE IF ULt(value, Lit(16384, 2)) THEN
    [buf |-> [buf EXCEPT ![0] = Or8(128, AsU8(BAnd(value, Lit(63, 2)))),
                         ![1] = AsU8(Shr(value, 6))],
     len |-> 2]
  ELSE
    [buf |-> [buf EXCEPT ![0] = 222,
                         ![1] = AsU8(BAnd(value, Lit(255, 2))),
                         ![2] = AsU8(Shr(value, 8))],
     len |-> 3]

\* variant: the 4-byte tier stores the value unshifted
encode_u32_tier4_noshift(buf, value) ==
  IF ULt(value, Lit(16384, 4)) THEN
    LET r == encode_u16(Prefix(buf, 3), Cast(value, 2))
    IN  [buf |-> Overlay(buf, r.buf), len |-> r.len]
  ELSE IF ULt(value, Lit(2097152, 4)) THEN
    [buf |-> [buf EXCEPT ![0] = Or8(192, AsU8(BAnd(value, Lit(31, 4)))),
                         ![1] = AsU8(Shr(value, 5)),
                         ![2] = AsU8(Shr(value, 13))],
     len |-> 3]
  ELSE IF ULt(value, Lit(268435456, 4)) THEN
    [buf |-> WriteAtOffset1(
               [buf EXCEPT ![0] = Or8(224, AsU8(BAnd(value, Lit(15, 4))))],
               Shr(value, 0)),
     len |-> 4]
  ELSE
    [buf |-> [WriteAtOffset1(buf, Shr(value, 0)) EXCEPT ![0] = 243],
     len |-> 5]

encode_u32(buf, value) ==
  IF ULt(value, Lit(16384, 4)) THEN
    LET r == encode_u16(Prefix(buf, 3), Cast(value, 2))
    IN  [buf |-> Overlay(buf, r.buf), len |-> r.len]
  ELSE IF ULt(value, Lit(2097152, 4)) THEN
    [buf |-> [buf EXCEPT ![0] = Or8(192, AsU8(BAnd(value, Lit(31, 4)))),
                         ![1] = AsU8(Shr(value, 5)),
                         ![2] = AsU8(Shr(value, 13))],
     len |-> 3]
  ELSE IF ULt(value, Lit(268435456, 4)) THEN
    [buf |-> WriteAtOffset1(
               [buf EXCEPT ![0] = Or8(224, AsU8(BAnd(value, Lit(15, 4))))],
               Shr(value, 4)),
     len |-> 4]
  ELSE
    [buf |-> [WriteAtOffset1(buf, Shr(value, 0)) EXCEPT ![0] = 243],
     len |-> 5]

\* the length-prefixed arm of encode_large_int
EncodeLargeTier(buf, value) ==
  LET len == LargeLen(value)
  IN  [buf |-> [WriteAtOffset1(buf, Shr(value, 0)) EXCEPT ![0] = Or8(240, len)],
       len |-> len + 2]

\* variant: the value is handed down through the wrong narrower type
encode_u64_as_u16(buf, value) ==
  IF ULe(value, Cast(MaxOf(4), 8)) THEN
    LET r == encode_u32(Prefix(buf, 5), Cast(Cast(value, 2), 4))
    IN  [buf |-> Overlay(buf, r.buf), len |-> r.len]
  ELSE EncodeLargeTier(buf, value)

encode_u64(buf, value) ==
  IF ULe(value, Cast(MaxOf(4), 8)) THEN
    LET r == encode_u32(Prefix(buf, 5), Cast(value, 4))
    IN  [buf |-> Overlay(buf, r.buf), len |-> r.len]
  ELSE EncodeLargeTier(buf, value)

encode_u128(buf, value) ==
  IF ULe(value, Cast(MaxOf(8), 16)) THEN
    LET r == encode_u64(Prefix(buf, 9), Cast(value, 8))
    IN  [buf |-> Overlay(buf, r.buf), len |-> r.len]
  ELSE EncodeLargeTier(buf, value)

\* variant: the sign is brought down by a logical shift
Zigzag_lsr(value) ==
  BXor(Shr(value, 8 * Width(value) - 1), Shl(value, 1))

\* the zigzag form computed by encode_signed_int and by the signed
\* encoded_size: ((value >> (BITS-1)) as U) ^ ((value << 1) as U)
Zigzag(value) ==
  BXor(Sar(value, 8 * Width(value) - 1), Shl(value, 1))

encode_i16(buf, value) == encode_u16(buf, Zigzag(value))

encode_i32(buf, value) == encode_u32(buf, Zigzag(value))

encode_i64(buf, value) == encode_u64(buf, Zigzag(value))

encode_i128(buf, value) == encode_u128(buf, Zigzag(value))

\* a float is held as its bit pattern; to_bits / from_bits reinterpret it
encode_f32(buf, value) == encode_u32(buf, SwapBytes(value))

encode_f64(buf, value) == encode_u64(buf, SwapBytes(value))


\* impl_encode_signed::encoded_size: the size of the zigzag form
encoded_size_signed(value) ==
  LET zigzag == Zigzag(value)
  IN  CASE Width(value) = 2 -> encoded_size_u16(zigzag)
        [] Width(value) = 4 -> encoded_size_u32(zigzag)
        [] Width(value) = 8 -> encoded_size_u64(zigzag)
        [] OTHER -> encoded_size_u128(zigzag)

\* impl_encode_float::encoded_size: the size of the byte-swapped bit pattern
encoded_size_float(value) ==
  IF Width(value) = 4 THEN encoded_size_u32(SwapBytes(value))
  ELSE encoded_size_u64(SwapBytes(value))

(***************************************************************************)
(* decode.rs                                                               *)
(***************************************************************************)
\* variant: the high bytes are not masked off
decode_binary_length_prefix_nomask(buf, size) ==
  LET len   == And8(buf[0], 15)
      value == ReadAtOffset1(buf, size)
  IN  [value |-> value, len |-> len + 2]

\* variant: the length is the nibble, without the prefix and the first
\* payload byte
decode_binary_length_prefix_nibble(buf, size) ==
  LET len           == And8(buf[0], 15)
      payload_bytes == len + 1
      mask  == IF payload_bytes >= size THEN MaxOf(size)
               ELSE Shr(MaxOf(size), (size - payload_bytes) * 8)
      value == ReadAtOffset1(buf, size)
  IN  [value |-> BAnd(value, mask), len |-> len]

\* decode_binary_length_prefix!(buf, T, size)
decode_binary_length_prefix(buf, size) ==
  LET len           == And8(buf[0], 15)
      payload_bytes == len + 1
      mask  == IF payload_bytes >= size THEN MaxOf(size)
               ELSE Shr(MaxOf(size), (size - payload_bytes) * 8)
      value == ReadAtOffset1(buf, size)
  IN  [value |-> BAnd(value, mask), len |-> len + 2]

decode_u16(buf) ==
  LET buf0 == buf[0]
  IN  IF buf0 < 128 THEN [value |-> Lit(buf0, 2), len |-> 1]
      ELSE IF buf0 < 192 THEN
        [value |-> BOr(Shl(Lit(buf[1], 2), 6), Lit(And8(buf0, 63), 2)),
         len |-> 2]
      ELSE IF buf0 = 222 THEN
        [value |-> BOr(Shl(Lit(buf[2], 2), 8), Lit(buf[1], 2)), len |-> 3]
      ELSE decode_binary_length_prefix(buf, 2)

\* variant: the 3-byte tier shifts its third byte by 12
decode_u32_shift12(buf) ==
  LET buf0 == buf[0]
  IN  IF buf0 >= 240 THEN decode_binary_length_prefix(buf, 4)
      ELSE IF buf0 < 192 THEN
        LET r == decode_u16(Prefix(buf, 3))
        IN  [value |-> Cast(r.value, 4), len |-> r.len]
      ELSE IF buf0 < 224 THEN
        [value |-> BOr(BOr(Shl(Lit(buf[2], 4), 12), Shl(Lit(buf[1], 4), 5)),
                       Lit(And8(buf0, 31), 4)),
         len |-> 3]
      ELSE
        [value |-> BOr(BOr(BOr(Shl(Lit(buf[3], 4), 20),
                               Shl(Lit(buf[2], 4), 12)),
                           Shl(Lit(buf[1], 4), 4)),
                       Lit(And8(buf0, 15), 4)),
         len |-> 4]

decode_u32(buf) ==
  LET buf0 == buf[0]
  IN  IF buf0 >= 240 THEN decode_binary_length_prefix(buf, 4)
      ELSE IF buf0 < 192 THEN
        LET r == decode_u16(Prefix(buf, 3))
        IN  [value |-> Cast(r.value, 4), len |-> r.len]
      ELSE IF buf0 < 224 THEN
        [value |-> BOr(BOr(Shl(Lit(buf[2], 4), 13), Shl(Lit(buf[1], 4), 5)),
                       Lit(And8(buf0, 31), 4)),
         len |-> 3]
      ELSE
        [value |-> BOr(BOr(BOr(Shl(Lit(buf[3], 4), 20),
                               Shl(Lit(buf[2], 4), 12)),
                           Shl(Lit(buf[1], 4), 4)),
                       Lit(And8(buf0, 15), 4)),
         len |-> 4]

decode_u64(buf) ==
  IF buf[0] >= 240 THEN decode_binary_length_prefix(buf, 8)
  ELSE LET r == decode_u32(Prefix(buf, 5))
       IN  [value |-> Cast(r.value, 8), len |-> r.len]

decode_u128(buf) ==
  IF buf[0] >= 240 THEN decode_binary_length_prefix(buf, 16)
  ELSE LET r == decode_u32(Prefix(buf, 5))
       IN  [value |-> Cast(r.value, 16), len |-> r.len]

\* variant: the low bit is not negated into a mask
Unzigzag_noneg(zigzag) ==
  BXor(Shr(zigzag, 1), BAnd(zigzag, Lit(1, Width(zigzag))))

\* decode_signed_int: ((zigzag >> 1) as I) ^ (-((zigzag & 1) as I))
Unzigzag(zigzag) ==
  BXor(Shr(zigzag, 1), Neg(BAnd(zigzag, Lit(1, Width(zigzag)))))

decode_i16(buf) ==
  LET r == decode_u16(buf) IN [value |-> Unzigzag(r.value), len |-> r.len]

decode_i32(buf) ==
  LET r == decode_u32(buf) IN [value |-> Unzigzag(r.value), len |-> r.len]

decode_i64(buf) ==
  LET r == decode_u64(buf) IN [value |-> Unzigzag(r.value), len |-> r.len]

decode_i128(buf) ==
  LET r == decode_u128(buf) IN [value |-> Unzigzag(r.value), len |-> r.len]

\* variant: the decoded integer is not byte-swapped
decode_f32_noswap(buf) ==
  LET r == decode_u32(buf) IN [value |-> r.value, len |-> r.len]

decode_f32(buf) ==
  LET r == decode_u32(buf) IN [value |-> SwapBytes(r.value), len |-> r.len]

decode_f64(buf) ==
  LET r == decode_u64(buf) IN [value |-> SwapBytes(r.value), len |-> r.len]

(***************************************************************************)
(* The supported types and the per-type functions.                         *)
(***************************************************************************)
Unsigned == {"u16", "u32", "u64", "u128"}

Signed == {"i16", "i32", "i64", "i128"}

Floats == {"f32", "f64"}

Types == Unsigned \cup Signed \cup Floats

\* size of the type in bytes
TypeBytes(t) ==
  CASE t \in {"u16", "i16"} -> 2
    [] t \in {"u32", "i32", "f32"} -> 4
    [] t \in {"u64", "i64", "f64"} -> 8
    [] OTHER -> 16

\* the size of the fixed array the type's functions take: its maximum tier
BufSize(t) == TypeBytes(t) + 1

EncodeFn(t, buf, value) ==
  CASE t = "u16" -> encode_u16(buf, value)
    [] t = "u32" -> encode_u32(buf, value)
    [] t = "u64" -> encode_u64(buf, value)
    [] t = "u128" -> encode_u128(buf, value)
    [] t = "i16" -> encode_i16(buf, value)
    [] t = "i32" -> encode_i32(buf, value)
    [] t = "i64" -> encode_i64(buf, value)
    [] t = "i128" -> encode_i128(buf, value)
    [] t = "f32" -> encode_f32(buf, value)
    [] t = "f64" -> encode_f64(buf, value)

DecodeFn(t, buf) ==
  CASE t = "u16" -> decode_u16(buf)
    [] t = "u32" -> decode_u32(buf)
    [] t = "u64" -> decode_u64(buf)
    [] t = "u128" -> decode_u128(buf)
    [] t = "i16" -> decode_i16(buf)
    [] t = "i32" -> decode_i32(buf)
    [] t = "i64" -> decode_i64(buf)
    [] t = "i128" -> decode_i128(buf)
    [] t = "f32" -> decode_f32(buf)
    [] t = "f64" -> decode_f64(buf)

\* Encode::encoded_size of each implementation
EncodedSizeFn(t, value) ==
  CASE t = "u16" -> encoded_size_u16(value)
    [] t = "u32" -> encoded_size_u32(value)
    [] t = "u64" -> encoded_size_u64(value)
    [] t = "u128" -> encoded_size_u128(value)
    [] t \in Signed -> encoded_size_signed(value)
    [] t \in Floats -> encoded_size_float(value)

(***************************************************************************)
(* const_encode.rs, const_decode.rs, helpers.rs: the const fn codec.       *)
(***************************************************************************)
\* dst after const_copy_slice(src, dst, dst_offset, len)
const_copy_slice(src, dst, dst_offset, len) ==
  [i \in DOMAIN dst |->
     IF i >= dst_offset /\ i < dst_offset + len THEN src[i - dst_offset]
     ELSE dst[i]]

\* const_read_array::<N>(src, offset)
const_read_array(n, src, offset) == [i \in 0..(n - 1) |-> src[offset + i]]

const_encode_u16(buf, value) ==
  IF ULt(value, Lit(128, 2)) THEN
    [buf |-> [buf EXCEPT ![0] = AsU8(value)], len |-> 1]
  ELSE IF ULt(value, Lit(16384, 2)) THEN
    [buf |-> [buf EXCEPT ![0] = Or8(128, AsU8(BAnd(value, Lit(63, 2)))),
                         ![1] = AsU8(Shr(value, 6))],
     len |-> 2]
  ELSE
    [buf |-> [buf EXCEPT ![0] = 222, ![1] = value[0], ![2] = value[1]],
     len |-> 3]

const_encode_u32(buf, value) ==
  IF ULt(value, Lit(16384, 4)) THEN
    LET r == const_encode_u16(Zero(3), Cast(value, 2))
    IN  [buf |-> const_copy_slice(r.buf, buf, 0, r.len), len |-> r.len]
  ELSE IF ULt(value, Lit(2097152, 4)) THEN
    [buf |-> [buf EXCEPT ![0] = Or8(192, AsU8(BAnd(value, Lit(31, 4)))),
                         ![1] = AsU8(Shr(value, 5)),
                         ![2] = AsU8(Shr(value, 13))],
     len |-> 3]
  ELSE IF ULt(value, Lit(268435456, 4)) THEN
    [buf |-> const_copy_slice(
               value,
               [buf EXCEPT ![0] = Or8(224, AsU8(BAnd(value, Lit(15, 4))))],
               1, 4),
     len |-> 4]
  ELSE
    [buf |-> [const_copy_slice(value, buf, 1, 4) EXCEPT ![0] = 243],
     len |-> 5]

const_encode_u64(buf, value) ==
  IF ULe(value, Cast(MaxOf(4), 8)) THEN
    LET r == const_encode_u32(Zero(5), Cast(value, 4))
    IN  [buf |-> const_copy_slice(r.buf, buf, 0, r.len), len |-> r.len]
  ELSE
    LET len == Xor8((LeadingZeros(value) \div 8) % 256, 7)
    IN  [buf |-> [const_copy_slice(value, buf, 1, 8) EXCEPT
                    ![0] = Or8(240, len)],
         len |-> len + 2]

const_encode_u128(buf, value) ==
  IF ULe(value, Cast(MaxOf(8), 16)) THEN
    LET r == const_encode_u64(Zero(9), Cast(value, 8))
    IN  [buf |-> const_copy_slice(r.buf, buf, 0, r.len), len |-> r.len]
  ELSE
    LET len == Xor8((LeadingZeros(value) \div 8) % 256, 15)
    IN  [buf |-> [const_copy_slice(value, buf, 1, 16) EXCEPT
                    ![0] = Or8(240, len)],
         len |-> len + 2]

\* ((value >> ZIGZAG_SHIFT) as U) ^ ((value << 1) as U), ZIGZAG_SHIFT the
\* number of bits of the type less one
const_zigzag(value) ==
  BXor(Sar(value, 8 * Width(value) - 1), Shl(value, 1))

const_encode_i16(buf, value) == const_encode_u16(buf, const_zigzag(value))

const_encode_i32(buf, value) == const_encode_u32(buf, const_zigzag(value))

const_encode_i64(buf, value) == const_encode_u64(buf, const_zigzag(value))

const_encode_i128(buf, value) == const_encode_u128(buf, const_zigzag(value))

\* the length-prefixed arm written out in each const decoder
const_length_prefix(buf, size) ==
  LET len             == And8(buf[0], 15)
      payload_bytes   == len + 1
      effective_bytes == IF payload_bytes < size THEN payload_bytes ELSE size
      mask            == Shr(MaxOf(size), (size - effective_bytes) * 8)
      bytes           == const_read_array(size, buf, 1)
  IN  [value |-> BAnd(bytes, mask), len |-> len + 2]

const_decode_u16(buf) ==
  LET buf0 == buf[0]
  IN  IF buf0 < 128 THEN [value |-> Lit(buf0, 2), len |-> 1]
      ELSE IF buf0 < 192 THEN
        [value |-> BOr(Shl(Lit(buf[1], 2), 6), Lit(And8(buf0, 63), 2)),
         len |-> 2]
      ELSE IF buf0 = 222 THEN
        [value |-> BOr(Shl(Lit(buf[2], 2), 8), Lit(buf[1], 2)), len |-> 3]
      ELSE const_length_prefix(buf, 2)

const_decode_u32(buf) ==
  LET buf0 == buf[0]
  IN  IF buf0 >= 240 THEN const_length_prefix(buf, 4)
      ELSE IF buf0 < 192 THEN
        LET r == const_decode_u16(const_read_array(3, buf, 0))
        IN  [value |-> Cast(r.value, 4), len |-> r.len]
      ELSE IF buf0 < 224 THEN
        [value |-> BOr(BOr(Shl(Lit(buf[2], 4), 13), Shl(Lit(buf[1], 4), 5)),
                       Lit(And8(buf0, 31), 4)),
         len |-> 3]
      ELSE
        [value |-> BOr(BOr(BOr(Shl(Lit(buf[3], 4), 20),
                               Shl(Lit(buf[2], 4), 12)),
                           Shl(Lit(buf[1], 4), 4)),
                       Lit(And8(buf0, 15), 4)),
         len |-> 4]

const_decode_u64(buf) ==
  IF buf[0] >= 240 THEN const_length_prefix(buf, 8)
  ELSE LET r == const_decode_u32(const_read_array(5, buf, 0))
       IN  [value |-> Cast(r.value, 8), len |-> r.len]

const_decode_u128(buf) ==
  IF buf[0] >= 240 THEN const_length_prefix(buf, 16)
  ELSE LET r == const_decode_u64(const_read_array(9, buf, 0))
       IN  [value |-> Cast(r.value, 16), len |-> r.len]

\* ((zigzag >> 1) as I) ^ (-((zigzag & 1) as I))
const_unzigzag(zigzag) ==
  BXor(Shr(zigzag, 1), Neg(BAnd(zigzag, Lit(1, Width(zigzag)))))

const_decode_i16(buf) ==
  LET r == const_decode_u16(buf)
  IN  [value |-> const_unzigzag(r.value), len |-> r.len]

const_decode_i32(buf) ==
  LET r == const_decode_u32(buf)
  IN  [value |-> const_unzigzag(r.value), len |-> r.len]

const_decode_i64(buf) ==
  LET r == const_decode_u64(buf)
  IN  [value |-> const_unzigzag(r.value), len |-> r.len]

const_decode_i128(buf) ==
  LET r == const_decode_u128(buf)
  IN  [value |-> const_unzigzag(r.value), len |-> r.len]

\* the types const_encode.rs and const_decode.rs cover
ConstTypes == {"u16", "u32", "u64", "u128", "i16", "i32", "i64", "i128"}

ConstEncodeFn(t, buf, value) ==
  CASE t = "u16" -> const_encode_u16(buf, value)
    [] t = "u32" -> const_encode_u32(buf, value)
    [] t = "u64" -> const_encode_u64(buf, value)
    [] t = "u128" -> const_encode_u128(buf, value)
    [] t = "i16" -> const_encode_i16(buf, value)
    [] t = "i32" -> const_encode_i32(buf, value)
    [] t = "i64" -> const_encode_i64(buf, value)
    [] t = "i128" -> const_encode_i128(buf, value)

ConstDecodeFn(t, buf) ==
  CASE t = "u16" -> const_decode_u16(buf)
    [] t = "u32" -> const_decode_u32(buf)
    [] t = "u64" -> const_decode_u64(buf)
    [] t = "u128" -> const_decode_u128(buf)
    [] t = "i16" -> const_decode_i16(buf)
    [] t = "i32" -> const_decode_i32(buf)
    [] t = "i64" -> const_decode_i64(buf)
    [] t = "i128" -> const_decode_i128(buf)

(***************************************************************************)
(* The slice API: Encode::encode, Decode::decode, bulk_encode,             *)
(* bulk_decode.  A Result is a record whose ok field tells Ok from Err.    *)
(***************************************************************************)
\* `&buf[offset..]`
Suffix(buf, offset) ==
  [i \in 0..(Width(buf) - offset - 1) |-> buf[i + offset]]

\* the buffer after the callee wrote `sub` through `&mut buf[offset..]`
SpliceAt(buf, offset, sub) ==
  [i \in DOMAIN buf |->
     IF i - offset \in DOMAIN sub THEN sub[i - offset] ELSE buf[i]]

ErrBuf(buf) == [ok |-> FALSE, len |-> 0, buf |-> buf]

\* the element of a one-element set: `The({e(r) : r \in {x}})` is e(x) with
\* x computed once, as a local `let r = x;` is
The(S) == CHOOSE e \in S : TRUE

\* variant: the check asks for the room the value needs, not the maximum
encode_need_actual(t, buf, value) ==
  IF Width(buf) < EncodedSizeFn(t, value) THEN ErrBuf(buf)
  ELSE LET full == [i \in 0..(BufSize(t) - 1) |-> ByteAt(buf, i, 0)]
       IN  The({[ok |-> TRUE, len |-> r.len, buf |-> Overlay(buf, r.buf)] :
                  r \in {EncodeFn(t, full, value)}})

\* <T as Encode>::encode(buf, value), encode::<T>(buf, value)
encode(t, buf, value) ==
  IF Width(buf) < BufSize(t) THEN ErrBuf(buf)
  ELSE The({[ok |-> TRUE, len |-> r.len, buf |-> Overlay(buf, r.buf)] :
              r \in {EncodeFn(t, Prefix(buf, BufSize(t)), value)}})

\* <T as Decode>::decode(buf), decode::<T>(buf): Ok((value, len)) or Err
decode(t, buf) ==
  IF Width(buf) < BufSize(t)
    THEN [ok |-> FALSE, value |-> Zero(TypeBytes(t)), len |-> 0]
  ELSE The({[ok |-> TRUE, value |-> r.value, len |-> r.len] :
              r \in {DecodeFn(t, Prefix(buf, BufSize(t)))}})

\* variant: the offset advances by the maximum tier, not by the length
RECURSIVE bulk_encode_loop_stride(_, _, _, _, _)
bulk_encode_loop_stride(t, buf, vals, i, offset) ==
  IF i > Len(vals) THEN [ok |-> TRUE, len |-> offset, buf |-> buf]
  ELSE IF offset >= Width(buf) THEN ErrBuf(buf)
  ELSE The({IF ~r.ok THEN ErrBuf(buf)
              ELSE bulk_encode_loop_stride(t, SpliceAt(buf, offset, r.buf),
                                           vals, i + 1, offset + BufSize(t)) :
              r \in {encode(t, Suffix(buf, offset), vals[i])}})

\* the loop of bulk_encode from values[i] on (values is 1-based here), the
\* buffer carrying what the earlier iterations wrote
RECURSIVE bulk_encode_loop(_, _, _, _, _)
bulk_encode_loop(t, buf, vals, i, offset) ==
  IF i > Len(vals) THEN [ok |-> TRUE, len |-> offset, buf |-> buf]
  ELSE IF offset >= Width(buf) THEN ErrBuf(buf)
  ELSE The({IF ~r.ok THEN ErrBuf(buf)
              ELSE bulk_encode_loop(t, SpliceAt(buf, offset, r.buf), vals,
                                    i + 1, offset + r.len) :
              r \in {encode(t, Suffix(buf, offset), vals[i])}})

\* bulk_encode::<T>(buf, values)
bulk_encode(t, buf, vals) == bulk_encode_loop(t, buf, vals, 1, 0)

\* variant: the loop stops one slot early
RECURSIVE bulk_decode_loop_short(_, _, _, _, _)
bulk_decode_loop_short(t, buf, slots, i, offset) ==
  IF i < Len(slots) /\ offset < Width(buf) THEN
    The({IF ~r.ok THEN [ok |-> FALSE, len |-> 0, values |-> slots]
         ELSE bulk_decode_loop_short(t, buf, [slots EXCEPT ![i] = r.value],
                                     i + 1, offset + r.len) :
         r \in {decode(t, Suffix(buf, offset))}})
  ELSE [ok |-> TRUE, len |-> offset, values |-> slots]

\* the loop of bulk_decode from slot i on
RECURSIVE bulk_decode_loop(_, _, _, _, _)
bulk_decode_loop(t, buf, slots, i, offset) ==
  IF i <= Len(slots) /\ offset < Width(buf) THEN
    The({IF ~r.ok THEN [ok |-> FALSE, len |-> 0, values |-> slots]
         ELSE bulk_decode_loop(t, buf, [slots EXCEPT ![i] = r.value],
                               i + 1, offset + r.len) :
         r \in {decode(t, Suffix(buf, offset))}})
  ELSE [ok |-> TRUE, len |-> offset, values |-> slots]

\* bulk_decode::<T>(buf, values)
bulk_decode(t, buf, slots) == bulk_decode_loop(t, buf, slots, 1, 0)

(***************************************************************************)
(* simd/x86_64_simd.rs: the bytes one lane of a group kernel produces.     *)
(***************************************************************************)
\* sequences of bytes are buffers: functions 0..n-1 -> 0..255
Bytes2(a, b) == [i \in 0..1 |-> IF i = 0 THEN a ELSE b]

Bytes3(a, b, c) == [i \in 0..2 |-> IF i = 0 THEN a ELSE IF i = 1 THEN b ELSE c]

Bytes4(a, b, c, d) ==
  [i \in 0..3 |-> IF i = 0 THEN a ELSE IF i = 1 THEN b
                  ELSE IF i = 2 THEN c ELSE d]

\* variant: the second byte takes the bits from bit 7 on
lane_2byte_shift7(v) == Bytes2(Or8(128, And8(v[0], 63)), AsU8(Shr(v, 7)))

\* encode_2byte: combined[2j], combined[2j+1] for the lane value v
lane_2byte(v) == Bytes2(Or8(128, And8(v[0], 63)), AsU8(Shr(v, 6)))

\* encode_3byte: combined[3j..3j+2]
lane_3byte(v) ==
  Bytes3(Or8(192, And8(v[0], 31)), AsU8(Shr(v, 5)), AsU8(Shr(v, 13)))

\* variant: the last byte takes the bits from bit 12 on
lane_4byte_shift12(v) ==
  Bytes4(Or8(224, And8(v[0], 15)), AsU8(Shr(v, 4)), AsU8(Shr(v, 12)),
         AsU8(Shr(v, 12)))

\* encode_4byte: combined[4j..4j+3]
lane_4byte(v) ==
  Bytes4(Or8(224, And8(v[0], 15)), AsU8(Shr(v, 4)), AsU8(Shr(v, 12)),
         AsU8(Shr(v, 20)))

\* encode_5byte: combined[5j..5j+4]
lane_5byte(v) ==
  [i \in 0..4 |-> IF i = 0 THEN 243 ELSE AsU8(Shr(v, 8 * (i - 1)))]

\* the lane bytes of the tier of n bytes
LaneBytes(n, v) ==
  CASE n = 2 -> lane_2byte(v)
    [] n = 3 -> lane_3byte(v)
    [] n = 4 -> lane_4byte(v)
    [] OTHER -> lane_5byte(v)

\* the tier the group loop of bulk_encode_u32 picks for a maximum m
GroupTier(m) ==
  IF ULt(m, Lit(16384, 4)) THEN 2
  ELSE IF ULt(m, Lit(2097152, 4)) THEN 3
  ELSE IF ULt(m, Lit(268435456, 4)) THEN 4
  ELSE 5

(***************************************************************************)
(* simd/x86_64_simd.rs: the group kernels and the bulk loops.  A 16-byte   *)
(* load that runs past the end of `combined` picks up the stack bytes      *)
(* behind it, g; a store that runs past the end of buf is reported in oob. *)
(***************************************************************************)
\* n bytes of mem from index from
Load(mem, from, n) == [i \in 0..(n - 1) |-> mem[from + i]]

\* `combined` of the kernel of tier n for the four lane values vs[1..4]
Combined(n, vs) ==
  [i \in 0..(4 * n - 1) |-> LaneBytes(n, vs[(i \div n) + 1])[i % n]]

\* the memory at combined.as_ptr(): the array, then what lies behind it
StackAfter(combined, g) ==
  [i \in 0..23 |-> IF i < Width(combined) THEN combined[i] ELSE g]

encode_2byte(buf, offset, vs, g) ==
  The({[buf |-> SpliceAt(buf, offset, Load(mem, 0, 16)),
        len |-> 8,
        oob |-> offset + 16 > Width(buf)] :
       mem \in {StackAfter(Combined(2, vs), g)}})

encode_3byte(buf, offset, vs, g) ==
  The({[buf |-> SpliceAt(SpliceAt(buf, offset, Load(mem, 0, 16)),
                         offset + 8, Load(mem, 8, 16)),
        len |-> 12,
        oob |-> offset + 24 > Width(buf)] :
       mem \in {StackAfter(Combined(3, vs), g)}})

encode_4byte(buf, offset, vs, g) ==
  The({[buf |-> SpliceAt(SpliceAt(buf, offset, Load(mem, 0, 16)),
                         offset + 8, Load(mem, 8, 16)),
        len |-> 16,
        oob |-> offset + 24 > Width(buf)] :
       mem \in {StackAfter(Combined(4, vs), g)}})

encode_5byte(buf, offset, vs, g) ==
  The({[buf |-> SpliceAt(SpliceAt(SpliceAt(buf, offset, Load(mem, 0, 16)),
                                  offset + 8, Load(mem, 8, 16)),
                         offset + 16, Load(mem, 16, 4)),
        len |-> 20,
        oob |-> offset + 24 > Width(buf)] :
       mem \in {StackAfter(Combined(5, vs), g)}})

\* values[i..i + 4].iter().max()
MaxU(S) == CHOOSE m \in S : \A v \in S : ULe(v, m)

\* handle_remaining_encode (simd/mod.rs), values 1-based: each value is
\* written by encode_u32 through a `*mut [u8; 5]` at buf + offset
RECURSIVE handle_remaining_encode(_, _, _, _, _)
handle_remaining_encode(buf, vals, offset, i, oob) ==
  IF i > Len(vals) THEN [buf |-> buf, len |-> offset, oob |-> oob]
  ELSE The({handle_remaining_encode(SpliceAt(buf, offset, r.buf), vals,
                                     offset + r.len, i + 1,
                                     oob \/ offset + 5 > Width(buf)) :
              r \in {encode_u32([k \in 0..4 |-> ByteAt(buf, offset + k, 0)],
                                vals[i])}})

\* variant: the tier is picked from the first value of the group
encode_group_first(buf, offset, vs, max_value, g) ==
  IF GroupTier(vs[1]) = 2 THEN encode_2byte(buf, offset, vs, g)
  ELSE IF GroupTier(vs[1]) = 3 THEN encode_3byte(buf, offset, vs, g)
  ELSE IF GroupTier(vs[1]) = 4 THEN encode_4byte(buf, offset, vs, g)
  ELSE encode_5byte(buf, offset, vs, g)

\* the kernel the group loop picks for a group whose largest value is
\* max_value
encode_group(buf, offset, vs, max_value, g) ==
  IF GroupTier(max_value) = 2 THEN encode_2byte(buf, offset, vs, g)
  ELSE IF GroupTier(max_value) = 3 THEN encode_3byte(buf, offset, vs, g)
  ELSE IF GroupTier(max_value) = 4 THEN encode_4byte(buf, offset, vs, g)
  ELSE encode_5byte(buf, offset, vs, g)

\* the group loop of X86_64Simd::bulk_encode_u32, then the remainder
RECURSIVE x86_64_encode_loop(_, _, _, _, _, _)
x86_64_encode_loop(buf, vals, offset, i, g, oob) ==
  IF i + 3 <= Len(vals) THEN
    The({x86_64_encode_loop(r.buf, vals, offset + r.len, i + 4, g,
                            oob \/ r.oob) :
         r \in {encode_group(buf, offset, [j \in 1..4 |-> vals[i + j - 1]],
                             MaxU({vals[i + j - 1] : j \in 1..4}), g)}})
  ELSE handle_remaining_encode(buf, vals, offset, i, oob)

\* X86_64Simd::bulk_encode_u32(buf, values)
x86_64_bulk_encode_u32(buf, vals, g) ==
  x86_64_encode_loop(buf, vals, 0, 1, g, FALSE)

\* GenericSimd::bulk_encode_u32(buf, values)
generic_bulk_encode_u32(buf, vals) ==
  handle_remaining_encode(buf, vals, 0, 1, FALSE)

\* a byte zero-extended to a u32 lane (_mm_cvtepu8_epi32)
Lane(b) == Lit(b, 4)

\* decode_2byte: lane j of
\* cvtepu8_epi32(data & 0x3F) | (cvtepu8_epi32(data >> 8 bits) << 6);
\* cvtepu8_epi32 widens the four lowest bytes of its operand
decode_2byte(data) ==
  [j \in 1..4 |->
     BOr(Lane(And8(data[j - 1], 63)), Shl(Lane(data[j]), 6))]

decode_3byte(data) ==
  [j \in 1..4 |->
     BOr(BOr(Lane(And8(data[j - 1], 31)), Shl(Lane(data[j]), 5)),
         Shl(Lane(data[j + 1]), 13))]

decode_4byte(data) ==
  [j \in 1..4 |->
     BOr(BOr(BOr(Lane(And8(data[j - 1], 15)), Shl(Lane(data[j]), 4)),
             Shl(Lane(data[j + 1]), 12)),
         Shl(Lane(data[j + 2]), 20))]

\* decode_5byte: u32::from_le_bytes(temp_buf[5j + 1 .. 5j + 5])
decode_5byte(data) ==
  [j \in 1..4 |-> Load(data, 5 * (j - 1) + 1, 4)]

\* handle_remaining_decode (simd/mod.rs), slots 1-based: each value is
\* decoded from a zeroed [u8; 5] holding the up to 5 bytes that are left
RECURSIVE handle_remaining_decode(_, _, _, _)
handle_remaining_decode(buf, slots, offset, i) ==
  IF i <= Len(slots) /\ offset < Width(buf) THEN
    The({handle_remaining_decode(buf, [slots EXCEPT ![i] = r.value],
                                 offset + r.len, i + 1) :
         r \in {decode_u32([k \in 0..4 |-> ByteAt(buf, offset + k, 0)])}})
  ELSE [len |-> offset, values |-> slots]

\* the group loop of X86_64Simd::bulk_decode_u32, then the remainder
RECURSIVE x86_64_decode_loop(_, _, _, _)
x86_64_decode_loop(buf, slots, offset, i) ==
  IF i + 3 <= Len(slots) /\ offset + 20 <= Width(buf) THEN
    LET first_byte == buf[offset]
        bytes_needed == IF first_byte < 192 THEN offset + 8
                        ELSE IF first_byte < 224 THEN offset + 12
                        ELSE IF first_byte < 240 THEN offset + 16
                        ELSE offset + 20
    IN  The({x86_64_decode_loop(
               buf,
               [k \in DOMAIN slots |->
                  IF k >= i /\ k <= i + 3 THEN out4[k - i + 1] ELSE slots[k]],
               bytes_needed, i + 4) :
             out4 \in {IF first_byte < 192
                         THEN decode_2byte(Load(buf, offset, 16))
                       ELSE IF first_byte < 224
                         THEN decode_3byte(Load(buf, offset, 16))
                       ELSE IF first_byte < 240
                         THEN decode_4byte(Load(buf, offset, 16))
                       ELSE decode_5byte(Load(buf, offset, 20))}})
  ELSE handle_remaining_decode(buf, slots, offset, i)

\* X86_64Simd::bulk_decode_u32(buf, values)
x86_64_bulk_decode_u32(buf, slots) == x86_64_decode_loop(buf, slots, 0, 1)

\* GenericSimd::bulk_decode_u32(buf, values)
generic_bulk_decode_u32(buf, slots) == handle_remaining_decode(buf, slots, 0, 1)

\* the backends a build can select
Backends == {"x86_64", "generic"}

\* bulk_encode_u32(buf, values) of the selected backend
bulk_encode_u32(arch, buf, vals, g) ==
  IF arch = "x86_64" THEN x86_64_bulk_encode_u32(buf, vals, g)
  ELSE generic_bulk_encode_u32(buf, vals)

\* bulk_decode_u32(buf, values) of the selected backend
bulk_decode_u32(arch, buf, slots) ==
  IF arch = "x86_64" THEN x86_64_bulk_decode_u32(buf, slots)
  ELSE generic_bulk_decode_u32(buf, slots)

\* variant: the wrapper asks for four bytes per value
bulk_encode_u32_safe_x4(arch, buf, vals, g) ==
  IF Width(buf) < Len(vals) * 4
    THEN [ok |-> FALSE, len |-> 0, buf |-> buf, oob |-> FALSE]
  ELSE The({[ok |-> TRUE, len |-> r.len, buf |-> r.buf, oob |-> r.oob] :
              r \in {bulk_encode_u32(arch, buf, vals, g)}})

\* bulk_encode_u32_safe(buf, values); oob tells whether the unchecked call
\* stored past the end of buf
bulk_encode_u32_safe(arch, buf, vals, g) ==
  IF Width(buf) < Len(vals) * 5
    THEN [ok |-> FALSE, len |-> 0, buf |-> buf, oob |-> FALSE]
  ELSE The({[ok |-> TRUE, len |-> r.len, buf |-> r.buf, oob |-> r.oob] :
              r \in {bulk_encode_u32(arch, buf, vals, g)}})

\* bulk_decode_u32_safe(buf, values)
bulk_decode_u32_safe(arch, buf, slots) ==
  IF Width(buf) = 0 THEN [ok |-> TRUE, len |-> 0, values |-> slots]
  ELSE The({[ok |-> TRUE, len |-> r.len, values |-> r.values] :
              r \in {bulk_decode_u32(arch, buf, slots)}})

(***************************************************************************)
(* Inputs.                                                                 *)
(***************************************************************************)
\* the n-byte value whose bits lo..hi-1 repeat the bits of the byte f, with
\* bit hi-1 set, and whose other bits are zero
Pattern(n, hi, lo, f) ==
  LET b(j) == IF j = hi - 1 THEN 1
              ELSE IF j >= lo /\ j < hi THEN Bit(f, j % 8)
              ELSE 0
  IN  [i \in 0..(n - 1) |->
         b(8 * i) + 2 * b(8 * i + 1) + 4 * b(8 * i + 2) + 8 * b(8 * i + 3)
           + 16 * b(8 * i + 4) + 32 * b(8 * i + 5) + 64 * b(8 * i + 6)
           + 128 * b(8 * i + 7)]

Complement(a) == [i \in DOMAIN a |-> 255 - a[i]]

\* values around every power of two of the width: every bit length with
\* several fillings, the same restricted to a window of high bits (low bits
\* zero), and the complements (small negative numbers, high bytes all ones)
Values(n) ==
  LET plain == {Pattern(n, hi, 0, FillByte(f)) :
                  hi \in 0..(8 * n), f \in 0..(ValueFills - 1)}
      wnd   == {Pattern(n, hi, IF hi > Window THEN hi - Window ELSE 0,
                        FillByte(f)) :
                  hi \in 0..(8 * n), f \in 0..(ValueFills - 1)}
  IN  plain \cup wnd \cup {Complement(v) : v \in plain}

\* a buffer of n bytes all equal to b
Filled(n, b) == [i \in 0..(n - 1) |-> b]

\* the bytes of buf at index >= from replaced by b
Repad(buf, from, b) ==
  [i \in DOMAIN buf |-> IF i >= from THEN b ELSE buf[i]]

(***************************************************************************)
(* State: one call sequence on one value.                                  *)
(***************************************************************************)
VARIABLES
  ty,      \* the type T of the calls
  value,   \* the value passed to encoded_size and encode
  buf,     \* the caller's [u8; BufSize(T)]
  pc,      \* position of the caller
  mode,    \* "call": the buffer is written by encode; "raw": received bytes;
           \* or the SIMD backend, or the wider type of a second codec
  size,    \* what encoded_size returned
  len,     \* what encode returned
  out,     \* what decode returned
  out2,    \* what decode returned on the re-padded buffer
  values,  \* the values: &[T] passed to a bulk encoder
  slice,   \* the buf: &mut [u8] passed to a checked or bulk encoder
  res,     \* what that encoder returned, and the buffer after the call
  dbuf,    \* the buf: &[u8] passed to a checked or bulk decoder
  dres     \* what that decoder returned, and the output slots after the call

slicevars == <<values, slice, res, dbuf, dres>>

vars == <<ty, value, buf, pc, mode, size, len, out, out2,
          values, slice, res, dbuf, dres>>

NoOut(t) == [value |-> Zero(TypeBytes(t)), len |-> 0]

\* a caller that sizes, encodes and decodes a value, the buffer holding
\* arbitrary prior contents
InitCall ==
  /\ pc = "start"
  /\ mode = "call"
  /\ ty \in Types
  /\ value \in Values(TypeBytes(ty))
  /\ \E f \in 0..(BufFills - 1) : buf = Filled(BufSize(ty), FillByte(f))

\* a caller that decodes bytes it received: any first byte
InitRaw ==
  /\ pc = "raw"
  /\ mode = "raw"
  /\ ty \in Types
  /\ value = Zero(TypeBytes(ty))
  /\ \E b0 \in Byte, f \in 0..(BufFills - 1) :
       buf = [Filled(BufSize(ty), FillByte(f)) EXCEPT ![0] = b0]

\* nothing has been returned yet
NothingReturned ==
  /\ size = 0
  /\ len = 0
  /\ out = NoOut(ty)
  /\ out2 = NoOut(ty)

\* no slice call is in progress
NoRes == [ok |-> FALSE, len |-> 0, buf |-> <<>>]

NoDRes == [ok |-> FALSE, len |-> 0, values |-> <<>>]

NoSliceCall ==
  /\ values = <<>>
  /\ slice = <<>>
  /\ res = NoRes
  /\ dbuf = <<>>
  /\ dres = NoDRes

Init == InitCall /\ NothingReturned /\ NoSliceCall

InitDecodeOnly == InitRaw /\ NothingReturned /\ NoSliceCall

\* encoded_size::<T>(value)
EncodedSize ==
  /\ pc = "start"
  /\ size' = EncodedSizeFn(ty, value)
  /\ pc' = "sized"
  /\ UNCHANGED <<ty, value, buf, mode, len, out, out2>>
  /\ UNCHANGED slicevars

\* encode_T(&mut buf, value)
Encode ==
  /\ pc = "sized"
  /\ LET r == EncodeFn(ty, buf, value)
     IN  /\ buf' = r.buf
         /\ len' = r.len
  /\ pc' = "encoded"
  /\ UNCHANGED <<ty, value, mode, size, out, out2>>
  /\ UNCHANGED slicevars

\* decode_T(&buf)
Decode ==
  /\ pc \in {"encoded", "raw"}
  /\ out' = DecodeFn(ty, buf)
  /\ pc' = "decoded"
  /\ UNCHANGED <<ty, value, buf, mode, size, len, out2>>
  /\ UNCHANGED slicevars

\* the caller overwrites the bytes after the consumed length with a
\* different padding
FillPadding ==
  /\ pc = "decoded"
  /\ \E f \in 0..(BufFills - 1) :
       /\ Repad(buf, out.len, FillByte(f)) # buf
       /\ buf' = Repad(buf, out.len, FillByte(f))
  /\ pc' = "padded"
  /\ UNCHANGED <<ty, value, mode, size, len, out, out2>>
  /\ UNCHANGED slicevars

\* decode_T(&buf) on the re-padded buffer
DecodeAgain ==
  /\ pc = "padded"
  /\ out2' = DecodeFn(ty, buf)
  /\ pc' = "redecoded"
  /\ UNCHANGED <<ty, value, buf, mode, size, len, out>>
  /\ UNCHANGED slicevars

\* size, encode, decode of one value
Next == EncodedSize \/ Encode \/ Decode

Spec == Init /\ [][Next]_vars

\* decode of received bytes, again after the padding was rewritten
NextRaw == Decode \/ FillPadding \/ DecodeAgain

SpecRaw == InitDecodeOnly /\ [][NextRaw]_vars

(***************************************************************************)
(* One u32 value written in a chosen tier, then decoded.                   *)
(***************************************************************************)
\* a caller that holds a u32 value and a [u8; 5] with arbitrary contents
InitTier ==
  /\ pc = "start"
  /\ mode = "tier"
  /\ ty = "u32"
  /\ value \in Values(4)
  /\ \E f \in 0..(BufFills - 1) : buf = Filled(5, FillByte(f))
  /\ NothingReturned
  /\ NoSliceCall

\* the value is written in a tier of n bytes that can hold it, as a lane of
\* encode_2byte, encode_3byte, encode_4byte or encode_5byte is
WriteTier ==
  /\ pc = "start"
  /\ \E n \in 2..5 :
       /\ GroupTier(value) <= n
       /\ buf' = Overlay(buf, LaneBytes(n, value))
       /\ len' = n
  /\ pc' = "encoded"
  /\ UNCHANGED <<ty, value, mode, size, out, out2>>
  /\ UNCHANGED slicevars

NextTier == WriteTier \/ Decode

SpecTier == InitTier /\ [][NextTier]_vars

(***************************************************************************)
(* The checked generic API on one value and a slice of any length.         *)
(***************************************************************************)
\* bit lengths on both sides of every tier boundary
TierBits(n) ==
  {hi \in 0..(8 * n) :
     \/ hi \in {0, 7, 8, 14, 15, 21, 22, 28, 29}
     \/ hi > 29 /\ hi % 8 \in {0, 1}}

\* one value of each of those bit lengths, and its complement
TierValues(n) ==
  LET plain == {Pattern(n, hi, 0, FillByte(2)) : hi \in TierBits(n)}
  IN  plain \cup {Complement(v) : v \in plain}

\* a caller that holds a value and a slice shorter than, as long as or longer
\* than the maximum tier of the type
InitChecked ==
  /\ pc = "start"
  /\ mode = "checked"
  /\ ty \in Types
  /\ value \in TierValues(TypeBytes(ty))
  /\ buf = <<>>
  /\ NothingReturned
  /\ values = <<>>
  /\ \E n \in 0..(BufSize(ty) + SliceExtra), f \in 0..(BufFills - 1) :
       slice = Filled(n, FillByte(f))
  /\ res = NoRes
  /\ dbuf = <<>>
  /\ dres = NoDRes

\* encode::<T>(slice, value)
CheckedEncode ==
  /\ pc = "start"
  /\ res' = encode(ty, slice, value)
  /\ pc' = "encoded"
  /\ UNCHANGED <<ty, value, buf, mode, size, len, out, out2>>
  /\ UNCHANGED <<values, slice, dbuf, dres>>

\* decode::<T>(&slice) on the slice as encode left it
CheckedDecode ==
  /\ pc = "encoded"
  /\ dbuf' = res.buf
  /\ \E r \in {decode(ty, res.buf)} :
       dres' = [ok |-> r.ok, len |-> r.len,
                values |-> IF r.ok THEN <<r.value>> ELSE <<>>]
  /\ pc' = "decoded"
  /\ UNCHANGED <<ty, value, buf, mode, size, len, out, out2>>
  /\ UNCHANGED <<values, slice, res>>

NextChecked == CheckedEncode \/ CheckedDecode

SpecChecked == InitChecked /\ [][NextChecked]_vars

(***************************************************************************)
(* The scalar bulk functions on a sequence of values of one type.          *)
(***************************************************************************)
\* bit lengths of a one-byte, a two-byte, a four-byte and the longest encoding
BulkBits(n) == {hi \in {3, 12, 25, 8 * n} : hi <= 8 * n}

BulkValues(n) == {Pattern(n, hi, 0, FillByte(2)) : hi \in BulkBits(n)}

\* all sequences of at most k elements of S
SeqsUpTo(S, k) == UNION {[1..m -> S] : m \in 0..k}

\* `vec![0; n]` of a type of w bytes
ZeroSlots(n, w) == [i \in 1..n |-> Zero(w)]

\* a caller that holds values of one type and a buffer of about
\* values.len() * M bytes with arbitrary contents
InitBulk ==
  /\ pc = "start"
  /\ mode = "bulk"
  /\ ty \in Types
  /\ value = Zero(TypeBytes(ty))
  /\ buf = <<>>
  /\ NothingReturned
  /\ values \in SeqsUpTo(BulkValues(TypeBytes(ty)), MaxValues)
  /\ \E n \in (Len(values) * BufSize(ty) - 1)..(Len(values) * BufSize(ty) + 1),
        f \in 0..(BufFills - 1) :
       /\ n >= 0
       /\ slice = Filled(n, FillByte(f))
  /\ res = NoRes
  /\ dbuf = <<>>
  /\ dres = NoDRes

\* bulk_encode(&mut slice, &values)
BulkEncode ==
  /\ pc = "start"
  /\ res' = bulk_encode(ty, slice, values)
  /\ pc' = "encoded"
  /\ UNCHANGED <<ty, value, buf, mode, size, len, out, out2>>
  /\ UNCHANGED <<values, slice, dbuf, dres>>

\* the caller takes `&buf[..cut]`, cut the encoded length or a little less
Truncate ==
  /\ pc = "encoded"
  /\ res.ok
  /\ \E cut \in (res.len - CutBack)..res.len :
       /\ cut >= 0
       /\ dbuf' = Prefix(res.buf, cut)
  /\ pc' = "sliced"
  /\ UNCHANGED <<ty, value, buf, mode, size, len, out, out2>>
  /\ UNCHANGED <<values, slice, res, dres>>

\* the caller copies the encoded bytes into a zeroed buffer of the same size
ZeroPad ==
  /\ pc = "encoded"
  /\ res.ok
  /\ dbuf' = [i \in DOMAIN res.buf |-> IF i < res.len THEN res.buf[i] ELSE 0]
  /\ pc' = "zeroed"
  /\ UNCHANGED <<ty, value, buf, mode, size, len, out, out2>>
  /\ UNCHANGED <<values, slice, res, dres>>

\* bulk_decode(&dbuf, &mut decoded_values), one zeroed slot per value
BulkDecode ==
  /\ pc \in {"sliced", "zeroed"}
  /\ dres' = bulk_decode(ty, dbuf, ZeroSlots(Len(values), TypeBytes(ty)))
  /\ pc' = "decoded"
  /\ UNCHANGED <<ty, value, buf, mode, size, len, out, out2>>
  /\ UNCHANGED <<values, slice, res, dbuf>>

NextBulk == BulkEncode \/ Truncate \/ ZeroPad \/ BulkDecode

SpecBulk == InitBulk /\ [][NextBulk]_vars

(***************************************************************************)
(* The SIMD bulk functions on a sequence of u32 values.                    *)
(***************************************************************************)
\* one u32 value of each of the five tiers
SimdValues == {Pattern(4, hi, 0, FillByte(2)) : hi \in {3, 12, 18, 25, 32}}

\* the sequences of at most k elements of S whose elements are all equal,
\* or all equal but one
OneOff(S, k) ==
  {<<>>} \cup
  UNION {{[j \in 1..n |-> IF j = p THEN o ELSE b] :
            b \in S, o \in S, p \in 1..n} : n \in 1..k}

\* a caller that holds u32 values and a buffer of one byte less than
\* values.len() * 5 bytes, of exactly that, or of four bytes more; mode is
\* the backend the build selected
InitSimd ==
  /\ pc = "start"
  /\ mode \in Backends
  /\ ty = "u32"
  /\ value = Zero(4)
  /\ buf = <<>>
  /\ NothingReturned
  /\ values \in OneOff(SimdValues, MaxSimdValues)
  /\ \E n \in {Len(values) * 5 - 1, Len(values) * 5, Len(values) * 5 + 4},
        f \in 0..(BufFills - 1) :
       /\ n >= 0
       /\ slice = Filled(n, FillByte(f))
  /\ res = NoRes
  /\ dbuf = <<>>
  /\ dres = NoDRes

\* what the bytes behind `combined` on the stack may hold
StackBytes == {FillByte(0), FillByte(1)}

\* bulk_encode_u32_safe(&mut slice, &values).  When the unchecked encoder
\* stores past the end of the buffer the behaviour is undefined: the call
\* may return as if the stores had hit spare memory, or not return
SimdEncode ==
  /\ pc = "start"
  /\ \E g \in StackBytes :
       \E r \in {bulk_encode_u32_safe(mode, slice, values, g)} :
         \/ /\ res' = [ok |-> r.ok, len |-> r.len, buf |-> r.buf]
            /\ pc' = "encoded"
         \/ /\ r.oob
            /\ res' = NoRes
            /\ pc' = "undefined"
  /\ UNCHANGED <<ty, value, buf, mode, size, len, out, out2>>
  /\ UNCHANGED <<values, slice, dbuf, dres>>

\* the caller takes exactly the produced bytes, `&buf[..encoded_len]`
SimdSlice ==
  /\ pc = "encoded"
  /\ res.ok
  /\ dbuf' = Prefix(res.buf, res.len)
  /\ pc' = "simd_sliced"
  /\ UNCHANGED <<ty, value, buf, mode, size, len, out, out2>>
  /\ UNCHANGED <<values, slice, res, dres>>

\* bulk_decode_u32_safe(&dbuf, &mut decoded_values), one slot per value
SimdDecode ==
  /\ pc = "simd_sliced"
  /\ dres' = bulk_decode_u32_safe(mode, dbuf, ZeroSlots(Len(values), 4))
  /\ pc' = "simd_decoded"
  /\ UNCHANGED <<ty, value, buf, mode, size, len, out, out2>>
  /\ UNCHANGED <<values, slice, res, dbuf>>

\* the safe encoder, then either the safe decoder on the produced bytes or
\* the scalar bulk decoder on the zero-padded buffer
NextSimd == SimdEncode \/ SimdSlice \/ SimdDecode \/ ZeroPad \/ BulkDecode

SpecSimd == InitSimd /\ [][NextSimd]_vars

(***************************************************************************)
(* A signed value encoded, the buffer read by the unsigned decoder.        *)
(***************************************************************************)
\* the unsigned type of the width of a signed type
UnsignedOf(t) ==
  CASE t = "i16" -> "u16"
    [] t = "i32" -> "u32"
    [] t = "i64" -> "u64"
    [] t = "i128" -> "u128"

\* a caller that sizes and encodes a signed value
InitZigzag ==
  /\ pc = "start"
  /\ mode = "zigzag"
  /\ ty \in Signed
  /\ value \in Values(TypeBytes(ty))
  /\ \E f \in 0..(BufFills - 1) : buf = Filled(BufSize(ty), FillByte(f))
  /\ NothingReturned
  /\ NoSliceCall

\* decode_uN(&buf) on the buffer encode_iN wrote
DecodeUnsigned ==
  /\ pc = "encoded"
  /\ out' = DecodeFn(UnsignedOf(ty), buf)
  /\ pc' = "decoded"
  /\ UNCHANGED <<ty, value, buf, mode, size, len, out2>>
  /\ UNCHANGED slicevars

NextZigzag == EncodedSize \/ Encode \/ DecodeUnsigned

SpecZigzag == InitZigzag /\ [][NextZigzag]_vars

(***************************************************************************)
(* One value under the codec of its type and under the codec of a wider    *)
(* type of the same signedness.                                            *)
(***************************************************************************)
\* the wider types a value of type t converts to without loss
Wider(t) ==
  CASE t = "u16" -> {"u32", "u64", "u128"}
    [] t = "u32" -> {"u64", "u128"}
    [] t = "u64" -> {"u128"}
    [] t = "i32" -> {"i128"}
    [] t = "i64" -> {"i128"}
    [] OTHER -> {}

\* `v as W`, W of m bytes and of the signedness of v's type t
Extend(t, v, m) ==
  [i \in 0..(m - 1) |->
     IF i < Width(v) THEN v[i]
     ELSE IF t \in Signed /\ v[Width(v) - 1] >= 128 THEN 255 ELSE 0]

\* a caller that holds a value of type ty, a buffer for the codec of ty and
\* a buffer for the codec of the wider type mode, both with prior contents
InitWiden ==
  /\ pc = "start"
  /\ ty \in Types
  /\ mode \in Wider(ty)
  /\ value \in Values(TypeBytes(ty))
  /\ \E f \in 0..(BufFills - 1) :
       /\ buf = Filled(BufSize(ty), FillByte(f))
       /\ slice = Filled(BufSize(mode), FillByte(f + 1))
  /\ NothingReturned
  /\ values = <<>>
  /\ res = NoRes
  /\ dbuf = <<>>
  /\ dres = NoDRes

\* encode_N(&mut buf, value), N the type of the value
EncodeNarrow ==
  /\ pc = "start"
  /\ \E r \in {EncodeFn(ty, buf, value)} :
       /\ buf' = r.buf
       /\ len' = r.len
  /\ pc' = "narrow"
  /\ UNCHANGED <<ty, value, mode, size, out, out2>>
  /\ UNCHANGED slicevars

\* encode_W(&mut slice, value as W), W the wider type
EncodeWide ==
  /\ pc = "narrow"
  /\ \E r \in {EncodeFn(mode, slice, Extend(ty, value, TypeBytes(mode)))} :
       res' = [ok |-> TRUE, len |-> r.len, buf |-> r.buf]
  /\ pc' = "wide"
  /\ UNCHANGED <<ty, value, buf, mode, size, len, out, out2>>
  /\ UNCHANGED <<values, slice, dbuf, dres>>

\* decode_N(&buf)
DecodeNarrow ==
  /\ pc = "wide"
  /\ out' = DecodeFn(ty, buf)
  /\ pc' = "narrow_decoded"
  /\ UNCHANGED <<ty, value, buf, mode, size, len, out2>>
  /\ UNCHANGED slicevars

\* decode_W(&slice) on the buffer encode_W wrote
DecodeWide ==
  /\ pc = "narrow_decoded"
  /\ \E r \in {DecodeFn(mode, res.buf)} :
       dres' = [ok |-> TRUE, len |-> r.len, values |-> <<r.value>>]
  /\ pc' = "wide_decoded"
  /\ UNCHANGED <<ty, value, buf, mode, size, len, out, out2>>
  /\ UNCHANGED <<values, slice, res, dbuf>>

\* decode_W on the bytes encode_N wrote, zero-padded to the wider buffer
DecodePadded ==
  /\ pc = "wide_decoded"
  /\ dbuf' = [i \in 0..(BufSize(mode) - 1) |-> IF i < len THEN buf[i] ELSE 0]
  /\ out2' = DecodeFn(mode, dbuf')
  /\ pc' = "padded_decoded"
  /\ UNCHANGED <<ty, value, buf, mode, size, len, out>>
  /\ UNCHANGED <<values, slice, res, dres>>

NextWiden ==
  EncodeNarrow \/ EncodeWide \/ DecodeNarrow \/ DecodeWide \/ DecodePadded

SpecWiden == InitWiden /\ [][NextWiden]_vars

(***************************************************************************)
(* One value under the primary codec and under the const fn codec.         *)
(***************************************************************************)
\* a caller that holds a value of an integer type and one buffer for each
\* codec, both with prior contents
InitConst ==
  /\ pc = "start"
  /\ mode = "const"
  /\ ty \in ConstTypes
  /\ value \in Values(TypeBytes(ty))
  /\ \E f \in 0..(BufFills - 1) :
       /\ buf = Filled(BufSize(ty), FillByte(f))
       /\ slice = Filled(BufSize(ty), FillByte(f))
  /\ NothingReturned
  /\ values = <<>>
  /\ res = NoRes
  /\ dbuf = <<>>
  /\ dres = NoDRes

\* const_encode::encode_N(&mut slice, value)
ConstEncode ==
  /\ pc = "narrow"
  /\ \E r \in {ConstEncodeFn(ty, slice, value)} :
       res' = [ok |-> TRUE, len |-> r.len, buf |-> r.buf]
  /\ pc' = "const_encoded"
  /\ UNCHANGED <<ty, value, buf, mode, size, len, out, out2>>
  /\ UNCHANGED <<values, slice, dbuf, dres>>

\* const_decode::decode_N(&slice) on the buffer the const encoder wrote
ConstDecode ==
  /\ pc = "const_encoded"
  /\ \E r \in {ConstDecodeFn(ty, res.buf)} :
       dres' = [ok |-> TRUE, len |-> r.len, values |-> <<r.value>>]
  /\ pc' = "const_decoded"
  /\ UNCHANGED <<ty, value, buf, mode, size, len, out, out2>>
  /\ UNCHANGED <<values, slice, res, dbuf>>

NextConst == EncodeNarrow \/ ConstEncode \/ ConstDecode

SpecConst == InitConst /\ [][NextConst]_vars

(***************************************************************************)
(* The decode loops, one iteration per step: bulk_decode::<T> and          *)
(* bulk_decode_u32_safe of the x86_64 backend on received bytes of any     *)
(* length and content.  dres is the frame of the running call: offset and  *)
(* i are the loop's variables (i counts slots from 1), values the output   *)
(* slots, rd the end of the highest range of buf the call has read, wr the *)
(* highest slot it has stored to, iters the scalar iterations so far.      *)
(***************************************************************************)
\* a first byte of each tier, of an empty length prefix and of the longest
RawBytes == {5, 133, 197, 229, 240, 255}

\* received bytes: b0, then b1 repeated
RawBuf(n, b0, b1) == [k \in 0..(n - 1) |-> IF k = 0 THEN b0 ELSE b1]

Frame(slots) ==
  [ok |-> TRUE, offset |-> 0, i |-> 1, values |-> slots,
   rd |-> 0, wr |-> 0, iters |-> 0]

\* a caller about to call the x86_64 bulk_decode_u32_safe or bulk_decode::<T>
InitSteps ==
  /\ pc = "start"
  /\ \/ mode = "x86_64" /\ ty = "u32"
     \/ mode = "bulk" /\ ty \in {"u16", "u32"}
  /\ value = Zero(TypeBytes(ty))
  /\ buf = <<>>
  /\ NothingReturned
  /\ values = <<>>
  /\ slice = <<>>
  /\ res = NoRes
  /\ dbuf = <<>>
  /\ dres = Frame(<<>>)

\* the caller passes received bytes of any length and content as buf and any
\* number of zeroed slots as values
PassArguments ==
  /\ \E n \in 0..MaxRawLen, b0 \in RawBytes, b1 \in RawBytes :
       dbuf' = RawBuf(n, b0, b1)
  /\ \E n \in 0..MaxSimdValues : dres' = Frame(ZeroSlots(n, TypeBytes(ty)))

Min(a, b) == IF a <= b THEN a ELSE b

Max(a, b) == IF a >= b THEN a ELSE b

\* bulk_decode_u32_safe: an empty buffer returns Ok(0), any other one goes
\* to the backend's bulk_decode_u32
SafeEnter ==
  /\ pc = "start"
  /\ mode = "x86_64"
  /\ PassArguments
  /\ pc' = IF Width(dbuf') = 0 THEN "done" ELSE "group"
  /\ UNCHANGED <<ty, value, buf, mode, size, len, out, out2>>
  /\ UNCHANGED <<values, slice, res>>

\* variant: the group loop asks for three free slots, not four
group_loop_cond_3(b, slots, offset, i) ==
  i + 2 <= Len(slots) /\ offset + 20 <= Width(b)

\* `while i + 3 < values.len() && offset + 20 <= buf.len()`
group_loop_cond(b, slots, offset, i) ==
  i + 3 <= Len(slots) /\ offset + 20 <= Width(b)

\* one iteration of the group loop: the first byte picks the kernel; the
\* 2-, 3- and 4-byte kernels load 16 bytes at buf + offset, the 5-byte one
\* copies min(20, buf.len() - offset) bytes into a zeroed temp_buf; each
\* stores four lanes at values + i
GroupStep ==
  /\ pc = "group"
  /\ group_loop_cond(dbuf, dres.values, dres.offset, dres.i)
  /\ LET offset == dres.offset
         i == dres.i
         first_byte == ByteAt(dbuf, offset, 0)
         copy_len == Min(20, Width(dbuf) - offset)
         bytes_needed == IF first_byte < 192 THEN offset + 8
                         ELSE IF first_byte < 224 THEN offset + 12
                         ELSE IF first_byte < 240 THEN offset + 16
                         ELSE offset + 20
         data == [k \in 0..15 |-> ByteAt(dbuf, offset + k, 0)]
         temp_buf == [k \in 0..19 |->
                        IF k < copy_len THEN ByteAt(dbuf, offset + k, 0)
                        ELSE 0]
     IN  \E out4 \in {IF first_byte < 192 THEN decode_2byte(data)
                      ELSE IF first_byte < 224 THEN decode_3byte(data)
                      ELSE IF first_byte < 240 THEN decode_4byte(data)
                      ELSE decode_5byte(temp_buf)} :
           dres' = [dres EXCEPT
                      !.values = [k \in DOMAIN dres.values |->
                                    IF k >= i /\ k <= i + 3
                                      THEN out4[k - i + 1]
                                    ELSE dres.values[k]],
                      !.offset = bytes_needed,
                      !.i = i + 4,
                      !.rd = Max(dres.rd, IF first_byte < 240
                                            THEN offset + 16
                                          ELSE offset + copy_len),
                      !.wr = Max(dres.wr, i + 3)]
  /\ UNCHANGED <<ty, value, buf, mode, size, len, out, out2>>
  /\ UNCHANGED <<values, slice, res, dbuf, pc>>

\* the group loop ends: handle_remaining_decode(buf, values, offset, i)
GroupExit ==
  /\ pc = "group"
  /\ ~group_loop_cond(dbuf, dres.values, dres.offset, dres.i)
  /\ pc' = "remaining"
  /\ UNCHANGED <<ty, value, buf, mode, size, len, out, out2>>
  /\ UNCHANGED slicevars

\* one iteration of handle_remaining_decode: min(5, buf.len() - offset)
\* bytes are copied into a zeroed [u8; 5] and decoded by decode_u32
RemainingStep ==
  /\ pc = "remaining"
  /\ dres.i <= Len(dres.values)
  /\ dres.offset < Width(dbuf)
  /\ LET offset == dres.offset
         copy_len == Min(5, Width(dbuf) - offset)
         temp_buf == [k \in 0..4 |->
                        IF k < copy_len THEN dbuf[offset + k] ELSE 0]
     IN  \E r \in {decode_u32(temp_buf)} :
           dres' = [dres EXCEPT !.values[dres.i] = r.value,
                                !.offset = offset + r.len,
                                !.i = dres.i + 1,
                                !.rd = Max(dres.rd, offset + copy_len),
                                !.wr = Max(dres.wr, dres.i),
                                !.iters = dres.iters + 1]
  /\ UNCHANGED <<ty, value, buf, mode, size, len, out, out2>>
  /\ UNCHANGED <<values, slice, res, dbuf, pc>>

\* the remainder loop ends and the call returns offset
RemainingExit ==
  /\ pc = "remaining"
  /\ ~(dres.i <= Len(dres.values) /\ dres.offset < Width(dbuf))
  /\ pc' = "done"
  /\ UNCHANGED <<ty, value, buf, mode, size, len, out, out2>>
  /\ UNCHANGED slicevars

\* bulk_decode::<T>(buf, values) is entered
BulkEnter ==
  /\ pc = "start"
  /\ mode = "bulk"
  /\ PassArguments
  /\ pc' = "scalar"
  /\ UNCHANGED <<ty, value, buf, mode, size, len, out, out2>>
  /\ UNCHANGED <<values, slice, res>>

\* one iteration of bulk_decode: T::decode(&buf[offset..])? returns the Err
\* to the caller or gives the value and the length the offset advances by
ScalarStep ==
  /\ pc = "scalar"
  /\ dres.i <= Len(dres.values)
  /\ dres.offset < Width(dbuf)
  /\ \E r \in {decode(ty, Suffix(dbuf, dres.offset))} :
       IF ~r.ok
         THEN /\ dres' = [dres EXCEPT !.ok = FALSE]
              /\ pc' = "done"
       ELSE /\ dres' = [dres EXCEPT
                          !.values[dres.i] = r.value,
                          !.offset = dres.offset + r.len,
                          !.i = dres.i + 1,
                          !.rd = Max(dres.rd, dres.offset + BufSize(ty)),
                          !.wr = Max(dres.wr, dres.i),
                          !.iters = dres.iters + 1]
            /\ pc' = pc
  /\ UNCHANGED <<ty, value, buf, mode, size, len, out, out2>>
  /\ UNCHANGED <<values, slice, res, dbuf>>

\* the loop of bulk_decode ends and the call returns Ok(offset)
ScalarExit ==
  /\ pc = "scalar"
  /\ ~(dres.i <= Len(dres.values) /\ dres.offset < Width(dbuf))
  /\ pc' = "done"
  /\ UNCHANGED <<ty, value, buf, mode, size, len, out, out2>>
  /\ UNCHANGED slicevars

NextSteps ==
  \/ SafeEnter \/ GroupStep \/ GroupExit \/ RemainingStep \/ RemainingExit
  \/ BulkEnter \/ ScalarStep \/ ScalarExit

SpecSteps == InitSteps /\ [][NextSteps]_vars

(***************************************************************************)
(* Properties.                                                             *)
(***************************************************************************)
\* the caller has encoded the value and decoded the buffer encode wrote
CallDecoded == mode = "call" /\ pc = "decoded"

\* the caller has encoded the value
CallEncoded == mode = "call" /\ pc \in {"encoded", "decoded"}

\* C1: unsigned round trip: decode_uN of the buffer encode_uN wrote (over
\* any prior contents) returns the value and the length encode_uN returned
C1_UnsignedRoundTrip ==
  (CallDecoded /\ ty \in Unsigned) => (out.value = value /\ out.len = len)

C1_Witness ==
  /\ mode = "call" /\ pc = "decoded" /\ ty = "u32"
  /\ len = 3 /\ buf[4] = 255
  /\ out.value = value

\* C2: signed round trip: decode_iN of the buffer encode_iN wrote returns
\* the value (MIN and MAX included) and the length encode_iN returned
C2_SignedRoundTrip ==
  (CallDecoded /\ ty \in Signed) => (out.value = value /\ out.len = len)

\* iN::MIN: only the sign bit set
IsMin(v) ==
  /\ v[Width(v) - 1] = 128
  /\ \A i \in DOMAIN v : i < Width(v) - 1 => v[i] = 0

C2_Witness ==
  /\ mode = "call" /\ pc = "decoded" /\ ty = "i128"
  /\ IsMin(value) /\ len = 17
  /\ out.value = value

\* C3: float round trip is bit exact: decode_fN of the buffer encode_fN
\* wrote returns the same bit pattern and the length encode_fN returned
C3_FloatRoundTrip ==
  (CallDecoded /\ ty \in Floats) => (out.value = value /\ out.len = len)

\* a NaN bit pattern of f32: exponent all ones, mantissa not zero
IsNaN32(v) ==
  /\ v[3] % 128 = 127 /\ v[2] >= 128
  /\ (v[2] > 128 \/ v[1] # 0 \/ v[0] # 0)

C3_Witness ==
  /\ mode = "call" /\ pc = "decoded" /\ ty = "f32"
  /\ IsNaN32(value) /\ out.value = value /\ out.len = len

\* the number held by the low four bytes of v, for v < 2^31
Nat4(v) == v[0] + 256 * v[1] + 65536 * v[2] + 16777216 * v[3]

\* the bytes and the length the format table gives for the 1-byte and
\* 2-byte forms of n
C4_Small(n) ==
  IF n < 128 THEN buf[0] = n /\ len = 1
  ELSE buf[0] = 128 + (n % 64) /\ buf[1] = n \div 64 /\ len = 2

C4_U32 ==
  IF value[3] >= 16 THEN
    /\ buf[0] = 243
    /\ \A i \in 0..3 : buf[1 + i] = value[i]
    /\ len = 5
  ELSE LET n == Nat4(value)
       IN  IF n < 16384 THEN C4_Small(n)
           ELSE IF n < 2097152 THEN
             /\ buf[0] = 192 + (n % 32)
             /\ buf[1] = (n \div 32) % 256
             /\ buf[2] = (n \div 8192) % 256
             /\ len = 3
           ELSE
             /\ buf[0] = 224 + (n % 16)
             /\ buf[1] = (n \div 16) % 256
             /\ buf[2] = (n \div 4096) % 256
             /\ buf[3] = (n \div 1048576) % 256
             /\ len = 4

C4_U16 ==
  LET n == value[0] + 256 * value[1]
  IN  IF n < 16384 THEN C4_Small(n)
      ELSE buf[0] = 222 /\ buf[1] = n % 256 /\ buf[2] = n \div 256 /\ len = 3

\* C4: encode_u32 and encode_u16 write exactly the tiered bytes of the
\* format table and return their number
C4_WireFormat ==
  /\ (mode = "call" /\ pc = "encoded" /\ ty = "u32") => C4_U32
  /\ (mode = "call" /\ pc = "encoded" /\ ty = "u16") => C4_U16

C4_Witness ==
  /\ mode = "call" /\ pc = "encoded" /\ ty = "u32"
  /\ len = 4 /\ buf[0] = 229 /\ buf[3] # 0

\* the number of significant bytes of v # 0
SignificantBytes(v) ==
  1 + (CHOOSE i \in DOMAIN v : v[i] # 0 /\ \A j \in DOMAIN v : j > i => v[j] = 0)

\* v does not fit the next smaller unsigned type
AboveSmaller(v) == \E i \in DOMAIN v : 2 * i >= Width(v) /\ v[i] # 0

\* C5: for u64 v > u32::MAX and u128 v > u64::MAX the encoder writes
\* 0xF0 | (k-1), k the number of significant bytes of v, then the k low
\* bytes of v in little-endian order, and returns k + 1
C5_LengthPrefixedTiers ==
  (mode = "call" /\ pc = "encoded" /\ ty \in {"u64", "u128"}
     /\ AboveSmaller(value)) =>
    LET k == SignificantBytes(value)
    IN  /\ buf[0] = 240 + (k - 1)
        /\ \A i \in 0..(k - 1) : buf[1 + i] = value[i]
        /\ len = k + 1

C5_Witness ==
  /\ mode = "call" /\ pc = "encoded" /\ ty = "u128"
  /\ AboveSmaller(value) /\ len = 12 /\ buf[0] = 250

\* C6: the size function returns exactly the length the encoder returns,
\* for the unsigned, the signed and the float types
C6_SizeEncodeConsistency == CallEncoded => size = len

C6_Witness ==
  /\ mode = "call" /\ pc = "encoded" /\ ty = "i64"
  /\ value[7] >= 128 /\ size = 4 /\ len = 4

\* C7: after encode_uN returned len, encoded_len(buf[0]) = len
C7_PrefixSelfDescription ==
  (mode = "call" /\ pc = "encoded" /\ ty \in Unsigned) =>
    encoded_len(buf[0]) = len

C7_Witness ==
  /\ mode = "call" /\ pc = "encoded" /\ ty = "u16"
  /\ buf[0] = 222 /\ len = 3 /\ encoded_len(buf[0]) = 3

\* C8: for every buffer content and every unsigned width the length
\* decode_uN returns equals encoded_len(buf[0])
C8_LengthFromFirstByte ==
  (pc = "decoded" /\ ty \in Unsigned) => out.len = encoded_len(buf[0])

\* |v| < 64 for a signed v
SignedAbsLt64(v) ==
  \/ ULt(v, Lit(64, Width(v)))
  \/ /\ v[0] >= 193
     /\ \A i \in DOMAIN v : i >= 1 => v[i] = 255

\* C9: the encoder returns a length between 1 and the maximum tier size of
\* the type; unsigned v < 128 and signed |v| < 64 take exactly 1 byte
C9_SizeBounds ==
  (mode = "call" /\ pc = "encoded" /\ ty \in Unsigned \cup Signed) =>
    /\ 1 <= len /\ len <= BufSize(ty)
    /\ (ty \in Unsigned /\ ULt(value, Lit(128, Width(value)))) => len = 1
    /\ (ty \in Signed /\ SignedAbsLt64(value)) => len = 1

C9_Witness ==
  /\ mode = "call" /\ pc = "encoded" /\ ty = "i32"
  /\ value[3] = 255 /\ SignedAbsLt64(value) /\ len = 1

\* C10: decode returns a value and a length for every first byte, and a
\* buffer that differs only at indexes >= that length decodes to the same
\* value and length
C10_PaddingIndependence ==
  /\ pc = "decoded" =>
       /\ out.value \in [0..(TypeBytes(ty) - 1) -> Byte]
       /\ out.len \in 1..17
       /\ \A p \in DOMAIN buf, f \in 0..(BufFills - 1) :
            p >= out.len => DecodeFn(ty, [buf EXCEPT ![p] = FillByte(f)]) = out
  /\ pc = "redecoded" => out2 = out

C10_Witness ==
  /\ mode = "raw" /\ pc = "redecoded" /\ ty = "u64"
  /\ buf[0] = 242 /\ buf[8] = 255 /\ out.len = 4 /\ out2 = out


\* the value was written in a chosen tier and the buffer decoded
TierDecoded == mode = "tier" /\ pc = "decoded"

\* C11: overlong decode tolerance: decode_u32 of a u32 value written in the
\* 2-, 3-, 4- or 5-byte form, whichever of them can hold the value (minimal
\* or not), returns the value and the length of that form
C11_OverlongDecode ==
  TierDecoded => (out.value = value /\ out.len = len)

C11_Witness ==
  /\ TierDecoded
  /\ ULt(value, Lit(128, 4)) /\ value # Zero(4)
  /\ len = 4 /\ buf[4] = 255
  /\ out.value = value /\ out.len = 4



\* C12: checked generic API: encode::<T> and decode::<T> return Err exactly
\* when the slice is shorter than the maximum tier M of T (3/5/9/17), even
\* if the value's encoding would fit; encode leaves the slice unmodified on
\* Err; on Ok both agree with the fixed-size function on the first M bytes
C12_CheckedApi ==
  LET M == BufSize(ty)
  IN  /\ (mode = "checked" /\ pc \in {"encoded", "decoded"}) =>
           /\ res.ok <=> Width(slice) >= M
           /\ ~res.ok => res.buf = slice
           /\ res.ok =>
                LET r == EncodeFn(ty, Prefix(slice, M), value)
                IN  /\ res.len = r.len
                    /\ Prefix(res.buf, M) = r.buf
                    /\ Suffix(res.buf, M) = Suffix(slice, M)
      /\ (mode = "checked" /\ pc = "decoded") =>
           /\ dres.ok <=> Width(dbuf) >= M
           /\ dres.ok =>
                LET r == DecodeFn(ty, Prefix(dbuf, M))
                IN  dres.values = <<r.value>> /\ dres.len = r.len

\* a one-byte value and a slice of four bytes: Err although the value fits
C12_Witness ==
  /\ mode = "checked" /\ pc = "decoded" /\ ty = "u32"
  /\ EncodedSizeFn(ty, value) = 1
  /\ Width(slice) = 4
  /\ ~res.ok /\ ~dres.ok



\* two buffers back to back
Append0(a, b) ==
  [i \in 0..(Width(a) + Width(b) - 1) |->
     IF i < Width(a) THEN a[i] ELSE b[i - Width(a)]]

\* the bytes encode::<T> produces for one value in a buffer of its own
Individual(t, v) ==
  LET r == encode(t, Filled(BufSize(t), 0), v)
  IN  Prefix(r.buf, r.len)

\* the individual encodings of vals[1..k], in order
RECURSIVE Concatenation(_, _, _)
Concatenation(t, vals, k) ==
  IF k = 0 THEN <<>>
  ELSE Append0(Concatenation(t, vals, k - 1), Individual(t, vals[k]))

\* bulk_encode has just returned
BulkEncoded == mode = "bulk" /\ pc = "encoded"

BulkDecoded == mode = "bulk" /\ pc = "decoded"

\* C13: bulk_encode is concatenation: into a buffer of at least
\* values.len() * M bytes bulk_encode returns Ok(total), total the sum of
\* the individual encoded sizes, and buf[0..total] is the individual encode
\* outputs back to back in input order
C13_BulkConcatenation ==
  (BulkEncoded /\ Width(slice) >= Len(values) * BufSize(ty)) =>
    LET all == Concatenation(ty, values, Len(values))
    IN  /\ res.ok
        /\ res.len = Width(all)
        /\ Prefix(res.buf, res.len) = all

C13_Witness ==
  /\ BulkEncoded /\ ty = "u64"
  /\ Len(values) = 2
  /\ res.ok /\ res.len = 9 + 2
  /\ slice[0] = 255



\* the buffer given to bulk_decode is exactly `&buf[..encoded_len]`
ExactSlice == res.ok /\ dbuf = Prefix(res.buf, res.len)

\* C14: scalar bulk round trip on the exact encoded slice: bulk_encode of
\* u32 values followed by bulk_decode of exactly buf[..encoded_len] into
\* values.len() slots returns Ok(encoded_len) and the original values
C14_ExactSliceRoundTrip ==
  (BulkDecoded /\ ty = "u32" /\ ExactSlice) =>
    (dres.ok /\ dres.len = res.len /\ dres.values = values)

\* every byte of b from index n on is zero
ZeroFrom(b, n) == \A i \in DOMAIN b : i >= n => b[i] = 0

\* C15: scalar bulk round trip with padded buffers: u32 or i32 values
\* encoded by bulk_encode into a buffer of at least n * 5 bytes, then
\* bulk_decode with n slots of a buffer of at least n * 5 bytes that holds
\* the encoding followed by zeros, returns Ok(encoded_len) and the values
C15_PaddedRoundTrip ==
  (/\ BulkDecoded /\ ty \in {"u32", "i32"}
   /\ res.ok
   /\ Width(slice) >= Len(values) * 5
   /\ Width(dbuf) >= Len(values) * 5
   /\ Prefix(dbuf, res.len) = Prefix(res.buf, res.len)
   /\ ZeroFrom(dbuf, res.len))
  => (dres.ok /\ dres.len = res.len /\ dres.values = values)

C15_Witness ==
  /\ BulkDecoded /\ ty = "i32"
  /\ Len(values) = 2 /\ values[1] # values[2]
  /\ slice[0] = 255
  /\ res.ok /\ res.len = 3
  /\ Width(dbuf) = 10 /\ ZeroFrom(dbuf, 3)
  /\ dres.ok /\ dres.values = values

\* C16: bulk_decode never reports an error on a truncated buffer: for
\* every non-empty buffer, one that ends in the middle of a value included,
\* it returns Ok
C16_NoErrorOnTruncation ==
  (BulkDecoded /\ Width(dbuf) > 0) => dres.ok



\* C17: SIMD bulk round trip: bulk_encode_u32_safe of u32 values of any
\* number into a buffer of values.len() * 5 bytes, then bulk_decode_u32_safe
\* of exactly the produced bytes into values.len() slots, returns the
\* original values and a consumed length equal to the produced length, on
\* the x86_64 backend and on the portable backend
C17_SimdRoundTrip ==
  (/\ mode \in Backends /\ pc = "simd_decoded"
   /\ Width(slice) = Len(values) * 5
   /\ ExactSlice)
  => (dres.ok /\ dres.values = values /\ dres.len = res.len)



\* C18: checked SIMD encode wrapper: bulk_encode_u32_safe returns Err,
\* without calling the unchecked encoder and without modifying buf, whenever
\* buf.len() < values.len() * 5, and returns Ok otherwise
C18_CheckedSimdEncode ==
  (mode \in Backends /\ pc # "start") =>
    IF Width(slice) < Len(values) * 5
      THEN pc # "undefined" /\ ~res.ok /\ res.buf = slice
      ELSE pc # "undefined" /\ res.ok

\* C19: SIMD output is decodable by the scalar path: the bytes the x86_64
\* bulk_encode_u32 produced (uniform-tier groups of four, scalar remainder),
\* in a buffer padded with zeros to at least values.len() * 5 bytes, are
\* decoded by bulk_decode::<u32> to the same values, the consumed length
\* equal to the length the SIMD encoder returned
C19_SimdScalarDecodable ==
  (/\ mode = "x86_64" /\ pc = "decoded"
   /\ res.ok
   /\ Width(dbuf) >= Len(values) * 5
   /\ Prefix(dbuf, res.len) = Prefix(res.buf, res.len)
   /\ ZeroFrom(dbuf, res.len))
  => (dres.ok /\ dres.values = values /\ dres.len = res.len)

\* two groups of four, the first holding a one-byte value in a wider tier
C19_Witness ==
  /\ mode = "x86_64" /\ pc = "decoded"
  /\ Len(values) = 8
  /\ ULt(values[1], Lit(128, 4)) /\ ~ULt(values[2], Lit(16384, 4))
  /\ res.ok /\ res.len < 40
  /\ Width(dbuf) = 40 /\ ZeroFrom(dbuf, res.len)
  /\ dres.ok /\ dres.values = values



\* C20: the scalar encoder always chooses the minimal tier: for every
\* unsigned width and every buffer b, if decode_uN(b) returns (v, l) then
\* l >= encoded_size_uN(v): no byte sequence shorter than the encoder's
\* output decodes to the same value
C20_MinimalTier ==
  (mode = "raw" /\ pc # "raw" /\ ty \in Unsigned) =>
    out.len >= EncodedSizeFn(ty, out.value)

\* a two-byte form that holds the largest 14-bit value, and no shorter one
\* does
C20_Witness ==
  /\ mode = "raw" /\ pc = "decoded" /\ ty = "u64"
  /\ buf[0] = 191 /\ buf[1] = 255
  /\ out.len = 2
  /\ EncodedSizeFn(ty, out.value) = 2

\* the n bytes of b at offset are a u32 encoding of v in the tier of n bytes
InTier(b, offset, n, v) ==
  /\ offset + n <= Width(b)
  /\ LET r == decode_u32([k \in 0..4 |-> IF k < n THEN b[offset + k] ELSE 0])
     IN  r.value = v /\ r.len = n

\* b from offset on holds vals[i..]: every full group of four in the tier of
\* the group's maximum, the values after the last full group as encode_u32
\* writes them, and nothing else
RECURSIVE UniformTiers(_, _, _, _)
UniformTiers(b, vals, i, offset) ==
  IF i + 3 <= Len(vals) THEN
    LET n == GroupTier(MaxU({vals[i + j] : j \in 0..3}))
    IN  /\ n \in 2..5
        /\ \A j \in 0..3 : InTier(b, offset + n * j, n, vals[i + j])
        /\ UniformTiers(b, vals, i + 4, offset + 4 * n)
  ELSE IF i <= Len(vals) THEN
    LET one == Individual("u32", vals[i])
    IN  /\ offset + Width(one) <= Width(b)
        /\ Load(b, offset, Width(one)) = one
        /\ UniformTiers(b, vals, i + 1, offset + Width(one))
  ELSE offset = Width(b)

\* C21: SIMD uniform tier per group: the x86_64 bulk_encode_u32 takes the
\* values in consecutive groups of four, writes the four values of a full
\* group in the tier of the group's maximum (2, 3, 4 or 5 bytes each, never
\* one byte), writes the remaining values.len() mod 4 values as the scalar
\* encode_u32 does, and returns the sum of these lengths
C21_UniformTierPerGroup ==
  (mode = "x86_64" /\ pc = "encoded" /\ res.ok) =>
    UniformTiers(Prefix(res.buf, res.len), values, 1, 0)

\* a one-byte value and a three-byte-tier value in one group, then a
\* remainder of two values
C21_Witness ==
  /\ mode = "x86_64" /\ pc = "encoded" /\ res.ok
  /\ Len(values) = 6
  /\ ULt(values[1], Lit(128, 4))
  /\ GroupTier(values[3]) = 3
  /\ res.len = 12 + 1 + 1

\* carry into byte i of the sum a + b
RECURSIVE AddCarry(_, _, _)
AddCarry(a, b, i) ==
  IF i = 0 THEN 0
  ELSE (a[i - 1] + b[i - 1] + AddCarry(a, b, i - 1)) \div 256

\* a + b modulo 2^(8 * Width(a))
Plus(a, b) ==
  [i \in DOMAIN a |-> (a[i] + b[i] + AddCarry(a, b, i)) % 256]

IsNegative(v) == v[Width(v) - 1] >= 128

\* 2v for v >= 0 and 2|v| - 1 for v < 0, as an unsigned number of the width
ZigzagOf(v) ==
  IF IsNegative(v)
    THEN Plus(Plus(Neg(v), Neg(v)), MaxOf(Width(v)))
  ELSE Plus(v, v)

\* C22: zigzag mapping: the signed transform maps v >= 0 to 2v and v < 0 to
\* 2|v| - 1 (MIN to the unsigned MAX), it is one to one and onto (the
\* transform of decode_iN undoes it on every iN, and it redoes that
\* transform on every uN), and decode_uN of the bytes encode_iN(v) wrote
\* yields the zigzag value
C22_ZigzagMapping ==
  /\ (mode = "zigzag" /\ pc = "encoded") =>
       /\ Zigzag(value) = ZigzagOf(value)
       /\ Unzigzag(Zigzag(value)) = value
       /\ Zigzag(Unzigzag(value)) = value
  /\ (mode = "zigzag" /\ pc = "decoded") => out.value = ZigzagOf(value)

\* iN::MIN read back as uN::MAX
C22_Witness ==
  /\ mode = "zigzag" /\ pc = "decoded" /\ ty = "i64"
  /\ IsMin(value)
  /\ out.value = MaxOf(8)
  /\ out.len = 9

\* |v| as an unsigned number of the width (`value.abs()`)
AbsOf(v) == IF IsNegative(v) THEN Neg(v) ELSE v

\* C23: signed compression efficiency: for every i128 value v with
\* 64 <= |v| < 0x10000000, encode_i128 returns a length of at most 4
C23_SignedCompression ==
  (/\ mode = "zigzag" /\ pc = "encoded" /\ ty = "i128"
   /\ ULe(Lit(64, 16), AbsOf(value))
   /\ ULt(AbsOf(value), Lit(268435456, 16)))
  => len <= 4

\* the caller runs the codec of a wider type next to the codec of ty
Widening == mode \in Types

\* C24: wider encoders reproduce narrower encodings: for a u32 value
\* encode_u64 and encode_u128, for a u64 value encode_u128, and for an i32
\* or i64 value encode_i128 of the sign-extended value, write the same bytes
\* and return the same length as the encoder of the value's own type; and
\* decode_u128 / decode_i128 (and decode_u64) of those bytes return the same
\* value and length as the narrower decoder
C24_WiderReproducesNarrower ==
  /\ (Widening /\ pc = "wide" /\ ty \in {"u32", "u64", "i32", "i64"}) =>
       /\ res.len = len
       /\ Prefix(res.buf, len) = Prefix(buf, len)
  /\ (Widening /\ pc = "wide_decoded" /\ ty \in {"u32", "u64", "i32", "i64"}) =>
       /\ dres.values[1] = Extend(ty, out.value, TypeBytes(mode))
       /\ dres.len = out.len

\* a negative i64 of eight encoded bytes under the i128 codec
C24_Witness ==
  /\ Widening /\ pc = "wide_decoded" /\ ty = "i64" /\ mode = "i128"
  /\ value[7] = 255 /\ value[6] < 255
  /\ len = 8 /\ res.len = 8
  /\ dres.values[1][15] = 255
  /\ dres.values[1] = Extend(ty, value, 16)

\* C30: narrow encodings decode under wider decoders: for every u16 value
\* v, decode_u32, decode_u64 and decode_u128 of the bytes encode_u16(v)
\* wrote, zero-padded to the wider buffer size, return v and the length
\* encode_u16 returned
C30_NarrowUnderWider ==
  (Widening /\ pc = "padded_decoded" /\ ty = "u16") =>
    /\ out2.value = Extend(ty, value, TypeBytes(mode))
    /\ out2.len = len

\* C25: the const fn mirror implements the identical algorithm: for every
\* integer value, const_encode::encode_* returns the length and writes the
\* first len bytes the primary encode_* does, and const_decode::decode_* of
\* the const-encoded buffer returns the value and that length
C25_ConstMirror ==
  /\ (mode = "const" /\ pc = "const_encoded") =>
       /\ res.len = len
       /\ Prefix(res.buf, len) = Prefix(buf, len)
  /\ (mode = "const" /\ pc = "const_decoded") =>
       /\ dres.values[1] = value
       /\ dres.len = res.len

\* C26: SIMD encode stays inside the buffer: whenever bulk_encode_u32_safe
\* accepts its arguments (buf.len() >= values.len() * 5), every store of the
\* x86_64 encoder (the 16-byte and 4-byte stores of the group kernels and
\* the scalar remainder) lands at an index below buf.len(), so the call
\* never leaves defined behaviour
C26_EncodeStoresInBounds ==
  (mode = "x86_64" /\ Width(slice) >= Len(values) * 5) => pc # "undefined"

\* C27: bulk_decode_u32_safe of the x86_64 backend stays inside its buffers
\* for received bytes of every length and content: in the group loop and in
\* the remainder loop every byte it reads lies below buf.len() and every
\* slot it stores to lies below values.len().
C27_DecodeInBounds ==
  mode = "x86_64" =>
    /\ dres.rd <= Width(dbuf)
    /\ dres.wr <= Len(dres.values)

\* a malformed buffer (first byte 0xFF) went through a vector group and then
\* the remainder loop, which read up to the last byte and filled the last slot
C27_Witness ==
  /\ mode = "x86_64"
  /\ pc = "done"
  /\ ByteAt(dbuf, 0, 0) = 255
  /\ dres.i >= 6
  /\ dres.iters >= 1
  /\ dres.rd = Width(dbuf)
  /\ dres.wr = Len(dres.values)

\* C28: for every buffer content decode_uN reports a consumed length no
\* greater than the type's maximum tier size: 3 for u16, 5 for u32, 9 for
\* u64, 17 for u128.
C28_LengthWithinBuffer ==
  (mode = "raw" /\ pc = "decoded" /\ ty \in Unsigned) =>
    out.len <= BufSize(ty)

\* C29: bulk decoding terminates on every input, well-formed or not: each
\* iteration that stores a value moves the offset forward by the decoded
\* length, which is at least 1, and the output index forward by one, the
\* index never passing the slot after the last; bulk_decode and the scalar
\* remainder loop of the SIMD decoder have then run at most
\* min(values.len(), buf.len()) iterations.
C29_BulkDecodeTerminates ==
  [][(pc # "start" /\ dres' # dres /\ dres'.ok) =>
       /\ dres'.offset >= dres.offset + 1
       /\ dres'.i > dres.i
       /\ dres'.i <= Len(dres.values) + 1
       /\ dres'.iters <= Min(Len(dres.values), Width(dbuf))]_vars

\* the remainder loop returned after one iteration per byte of a buffer that
\* ends inside a length-prefixed value: [0x05, 0xF0]
C29_Witness ==
  /\ mode = "x86_64"
  /\ pc = "done"
  /\ Width(dbuf) = 2
  /\ dbuf[1] = 240
  /\ dres.iters = 2
  /\ dres.offset = 3

=============================================================================
